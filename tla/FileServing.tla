---------------------------- MODULE FileServing ----------------------------
(***************************************************************************)
(* Files sent by StaticFiles (contrib/staticfiles.py) and by FileResponse  *)
(* or send_file (http/response.py, helpers.py): which file a path names,   *)
(* its validators, the range that is sent, and what a client puts together *)
(* from two answers.                                                       *)
(* A file is a version, a size in bytes and a time in half seconds.        *)
(***************************************************************************)
EXTENDS Integers, Sequences, FiniteSets, SequencesExt

Open == -1                          \* an end of a range that is left out
None == "none"
NoRange == [start |-> Open, end |-> Open]
Bytes(file, from, to) == {[v |-> file.v, at |-> b] : b \in from .. to}

File(v, size, mtime) == [v |-> v, size |-> size, mtime |-> mtime]
Second(mtime) == mtime \div 2       \* int(mtime); an HTTP date has no more

-----------------------------------------------------------------------------
(* Which file (StaticFiles.handle).  t says what is at the path, at the    *)
(* path with ".html", at its index.html, at 404.html and at its            *)
(* precompressed variant, and which of them lead out of the directory.     *)

Regular(t, which) == which \in t.files
Inside(t, which) == which \notin t.outside

ServeUnseen(t, which) == IF Regular(t, which) THEN [status |-> 200, file |-> which] ELSE [status |-> 404, file |-> None]

Checked(t, which) ==
    IF Inside(t, which) THEN [status |-> 200, file |-> which] ELSE [status |-> 403, file |-> None]

(* _serve_404_html.                                                        *)
serve_404_html(t) ==
    CASE ~Regular(t, "404") -> [status |-> 404, file |-> None]
      [] Regular(t, "404") /\ ~Inside(t, "404") -> [status |-> 403, file |-> None]
      [] OTHER -> [status |-> 404, file |-> "404"]

(* The page itself, then with ".html", then the directory's index.html.    *)
page(t, conf) ==
    CASE Regular(t, "self") -> "self"
      [] ~Regular(t, "self") /\ conf.html /\ Regular(t, "html") -> "html"
      [] OTHER -> IF conf.html /\ t.dir /\ Regular(t, "index") THEN "index" ELSE None

(* _select_precompressed, once the page itself was found to be inside.     *)
precompressed(t, conf, accept, which) ==
    CASE conf.precompressed /\ accept.gzip /\ Regular(t, "gz") -> Checked(t, "gz")
      [] conf.precompressed /\ ~(accept.gzip /\ Regular(t, "gz")) /\ ~accept.identity -> [status |-> 406, file |-> None]
      [] OTHER -> Checked(t, which)

handle(t, conf, accept, slash) ==
    LET which == page(t, conf) IN
    CASE which = "index" /\ ~slash -> [status |-> 308, file |-> None]
      [] which # None /\ ~(which = "index" /\ ~slash) ->
            IF Inside(t, which) THEN precompressed(t, conf, accept, which) ELSE [status |-> 403, file |-> None]
      [] which = None /\ conf.listing /\ t.dir ->
            IF Inside(t, "self") THEN [status |-> 200, file |-> "listing"] ELSE [status |-> 403, file |-> None]
      [] OTHER -> IF conf.html THEN serve_404_html(t) ELSE [status |-> 404, file |-> None]

-----------------------------------------------------------------------------
(* Validators.  A tag is weak and names size and time (_file_etag).        *)
file_etag(file) == [size |-> file.size, mtime |-> file.mtime]
NoTag == [size |-> 0, mtime |-> 0]

(* StaticFiles remembers the tag of a path while its time stays the same.  *)
RememberForever(cached, file) == IF cached = <<>> THEN file_etag(file) ELSE cached[1].tag

remember_etag(cached, file) ==
    IF cached # <<>> /\ cached[1].mtime = file.mtime THEN cached[1].tag ELSE file_etag(file)

(* _precondition_failed: If-Match compares strongly, these tags are weak.  *)
precondition_failed(q, file) ==
    IF q.ifMatch # NoTag THEN TRUE ELSE q.unmodifiedSince # 0 /\ Second(file.mtime) > q.unmodifiedSince

(* _conditional_hit.                                                       *)
conditional_hit(q, tag, file) ==
    IF q.inm # NoTag THEN q.inm = tag ELSE q.ims # 0 /\ Second(file.mtime) <= q.ims

(* If-Range: a weak tag never matches, a date does by the second.          *)
AnyValidator(q, file) == TRUE

if_range(q, file) ==
    q.ifRange.tag = NoTag /\ (q.ifRange.date # 0 => Second(file.mtime) = q.ifRange.date)

-----------------------------------------------------------------------------
(* Ranges.                                                                 *)
Smaller(a, b) == IF a <= b THEN a ELSE b
Unsatisfiable == [from |-> 0, to |-> -1]

Suffix(end, size) ==
    LET n == Smaller(IF end = Open THEN 0 ELSE end, size)
    IN  IF n > 0 THEN [from |-> size - n, to |-> size - 1] ELSE Unsatisfiable

(* _resolve_range and the test after it.                                   *)
PastTheEnd(r, size) == [from |-> r.start, to |-> IF r.end = Open \/ r.end > size THEN size - 1 ELSE r.end]

resolve_range(r, size) ==
    LET span == IF r.start = Open THEN Suffix(r.end, size)
                ELSE [from |-> r.start, to |-> IF r.end # Open /\ r.end < size THEN r.end ELSE size - 1]
    IN  IF span.from >= size \/ span.from > span.to THEN Unsatisfiable ELSE span

(* _resolve_byte_range, of FileResponse.                                   *)
resolve_byte_range(r, size) ==
    CASE r.start = Open -> Suffix(r.end, size)
      [] r.start # Open /\ r.start >= size -> Unsatisfiable
      [] OTHER -> LET to == IF r.end = Open \/ r.end >= size THEN size - 1 ELSE r.end
                  IN  IF r.start <= to THEN [from |-> r.start, to |-> to] ELSE Unsatisfiable

-----------------------------------------------------------------------------
(* An answer: status, the bytes, what the client keeps of the headers.     *)
Answer(status, sent, tag, file, total) ==
    [status |-> status, sent |-> sent, tag |-> tag, date |-> Second(file.mtime), total |-> total]

(* Reading what may have changed since it was looked at.                   *)
Read(file, from, to) == Bytes(file, from, Smaller(to, file.size - 1))

Ranged(q, file, opened, tag, resolved) ==
    IF resolved = Unsatisfiable THEN Answer(416, {}, tag, file, file.size)
    ELSE Answer(206, Read(opened, resolved.from, resolved.to), tag, file, resolved.to - resolved.from + 1)

(* StaticFiles.handle from the tag on.                                     *)
static_file(q, cached, file, opened) ==
    LET tag == remember_etag(cached, file)
    IN  CASE precondition_failed(q, file) -> Answer(412, {}, tag, file, 0)
          [] ~precondition_failed(q, file) /\ conditional_hit(q, tag, file) -> Answer(304, {}, tag, file, 0)
          [] ~precondition_failed(q, file) /\ ~conditional_hit(q, tag, file) /\ q.range # NoRange /\ if_range(q, file) ->
                Ranged(q, file, opened, tag, resolve_range(q.range, file.size))
          [] OTHER -> Answer(200, Bytes(opened, 0, opened.size - 1), tag, file, opened.size)

(* FileResponse: no conditions of its own; the length of a large file is   *)
(* declared before it is read.                                             *)
file_response(q, file, opened) ==
    LET tag == file_etag(file)
    IN  IF q.range # NoRange /\ if_range(q, file)
        THEN Ranged(q, file, opened, tag, resolve_byte_range(q.range, file.size))
        ELSE Answer(200, Read(opened, 0, file.size - 1), tag, file, file.size)

serve(server, q, cached, file, opened) ==
    IF server = "static" THEN static_file(q, cached, file, opened) ELSE file_response(q, file, opened)

-----------------------------------------------------------------------------
(* Cases: two requests for one path.  The file may change between them.    *)
Plain == [range |-> NoRange, inm |-> NoTag, ims |-> 0, ifMatch |-> NoTag, unmodifiedSince |-> 0,
          ifRange |-> [tag |-> NoTag, date |-> 0]]

Ends == {Open} \cup 0 .. 4
Spans == [start : Ends, end : Ends] \ {NoRange}
Files1 == {File(1, s, m) : s \in 0 .. 3, m \in 2 .. 3}
Files2 == {File(v, s, m) : v \in 1 .. 2, s \in 1 .. 3, m \in 2 .. 5}

(* The same version is the same file; a new one is not older.              *)
Succeeds(f1, f2) == IF f2.v = f1.v THEN f2 = f1 ELSE f2.mtime >= f1.mtime

FileCases ==
    {x \in [server : {"static", "response"}, first : Files1, second : Files2, range : Spans, by : {"tag", "date"}] :
        Succeeds(x.first, x.second)}

Trees == [files : SUBSET {"self", "html", "index", "404", "gz"}, dir : BOOLEAN,
          outside : SUBSET {"self", "html", "index", "404", "gz"}]
TreeCases ==
    {x \in [t : Trees, conf : [html : BOOLEAN, listing : BOOLEAN, precompressed : BOOLEAN],
            accept : [gzip : BOOLEAN, identity : BOOLEAN], slash : BOOLEAN] :
        /\ ~(x.t.dir /\ "self" \in x.t.files)
        /\ "index" \in x.t.files => x.t.dir
        /\ x.t.outside \subseteq (x.t.files \cup (IF x.t.dir THEN {"self"} ELSE {}))
        /\ x.slash => x.t.dir}

First(x) == serve(x.server, [Plain EXCEPT !.range = x.range], <<>>, x.first, x.first)
Cached(x) == <<[tag |-> file_etag(x.first), mtime |-> x.first.mtime]>>

(* The rest of the file, if it is still the one of the first answer.       *)
Rest(x) ==
    LET a == First(x)
        next == (CHOOSE b \in a.sent : \A c \in a.sent : c.at <= b.at).at + 1
    IN  [Plain EXCEPT !.range = [start |-> next, end |-> Open],
                      !.ifRange = IF x.by = "tag" THEN [tag |-> a.tag, date |-> 0] ELSE [tag |-> NoTag, date |-> a.date]]

-----------------------------------------------------------------------------
(* Both servers send of a range what the file has of it, and answer 416    *)
(* when it has none of it.                                                 *)
Wanted(r, file) ==
    {b \in 0 .. file.size - 1 :
        IF r.start = Open THEN b >= file.size - r.end ELSE b >= r.start /\ (r.end # Open => b <= r.end)}

RangesAreExact(x) ==
    LET a == First(x)  wanted == Wanted(x.range, x.first)
    IN  /\ {b.at : b \in a.sent} = wanted
        /\ a.status = (IF wanted = {} THEN 416 ELSE 206)

(* A client that fetches a file in two parts and names with If-Range what  *)
(* the first was from never joins parts of two versions, provided they are *)
(* of different seconds.                                                   *)
Joins(x) ==
    LET a == First(x)  b == serve(x.server, Rest(x), Cached(x), x.second, x.second)
    IN  a.status = 206 /\ b.status = 206 => \A p, q \in a.sent \cup b.sent : p.v = q.v

PartsOfOneVersion(x) ==
    First(x).sent # {} /\ (x.first = x.second \/ Second(x.first.mtime) # Second(x.second.mtime)) => Joins(x)

(* The same of two versions within one second.  Not kept: the date says    *)
(* only the second.                                                        *)
PartsWithinASecond(x) == First(x).sent # {} => Joins(x)

(* Who has a version and asks with its tag is told 304 of that one only.   *)
(* Files of one size and one time have one tag.                            *)
Revalidated(x) ==
    LET q == [Plain EXCEPT !.inm = First(x).tag]
    IN  serve(x.server, q, Cached(x), x.second, x.second).status = 304 =>
            x.first = x.second \/ file_etag(x.first) = file_etag(x.second)

TagsTellTimesApart(x) == x.first = x.second \/ x.first.mtime # x.second.mtime => Revalidated(x)

(* docs/guide/static-files.md:175: the tag is "derived from its path,      *)
(* size, and modification time".  Not kept: the remembered tag is used     *)
(* while the time is the same, whatever the size.                          *)
TagsTellSizesApart(x) == Revalidated(x)

(* What Content-Length a FileResponse declares is what follows, when the   *)
(* file shrinks between its stat() and its read.  Not kept.                *)
LengthIsKept(x) ==
    LET a == serve(x.server, Plain, <<>>, x.first, x.second) IN a.total = Cardinality(a.sent)

(* Whatever is read to answer a request is inside the directory.           *)
ServedFromTree(x) ==
    LET a == handle(x.t, x.conf, x.accept, x.slash)
    IN  a.file \notin {None, "listing"} => Regular(x.t, a.file) /\ Inside(x.t, a.file)

(* With html=True a page a browser resolves relative links against is      *)
(* under a path that ends with a slash if it is a directory's.             *)
IndexUnderSlash(x) == handle(x.t, x.conf, x.accept, x.slash).file = "index" => x.slash

-----------------------------------------------------------------------------
(***************************************************************************)
(* What an app is composed of besides its routes: mounted applications and *)
(* static directories (app/mounting.py, app/dispatch.py _resolve_route,    *)
(* contrib/staticfiles.py) and the order of its middleware                 *)
(* (app/middleware.py).  A path is its segments and whether it ends in a   *)
(* slash; Rest tells what is left of a word after another it begins with.  *)
(***************************************************************************)

Path(segs, slash) == [segs |-> segs, slash |-> slash]

Begins(w, v) == w = v \/ <<w, v>> = <<"s", "s2">>
Remainder(w, v) == IF w = v THEN <<>> ELSE <<"2">>

(* Path `under` starts with the text of prefix `p` and a slash.            *)
Within(p, q) ==
    /\ ~p.slash
    /\ \/ IsStrictPrefix(p.segs, q.segs)
       \/ p.segs = q.segs /\ q.slash

(* _reject_overlapping_prefix, in both directions or in one.               *)
OverlapsBelow(p, q) == p = q \/ Within(q, p)
overlaps(p, q) == p = q \/ Within(q, p) \/ Within(p, q)

(* mount() strips the slash of its prefix before the check, mount_static() *)
(* leaves that to StaticFiles, after it.                                   *)
CheckedPrefix(call) == IF call.kind = "static" THEN call.prefix ELSE Path(call.prefix.segs, FALSE)
Stored(call) == [call EXCEPT !.prefix = Path(@.segs, FALSE)]

mount(mounts, call) ==
    IF \E i \in DOMAIN mounts : overlaps(CheckedPrefix(call), mounts[i].prefix) THEN mounts
    ELSE Append(mounts, Stored(call))

Mounted(calls) == FoldLeft(mount, <<>>, calls)

(* _match_asgi_mount, _path_under_mount: the prefix itself, or below it.   *)
Claims(m, path) == path = m.prefix \/ Within(m.prefix, path)

(* StaticFiles.handle: the prefix is compared as text; a file that is not  *)
(* there leaves the request to whoever is next.                            *)
static_serves(m, path) ==
    LET n == Len(m.prefix.segs) IN
    /\ n <= Len(path.segs)
    /\ \A i \in 1..n : IF i < n THEN path.segs[i] = m.prefix.segs[i] ELSE Begins(m.prefix.segs[i], path.segs[i])
    /\ LET last == IF n = 0 THEN <<>> ELSE Remainder(m.prefix.segs[n], path.segs[n])
       IN  last \o SubSeq(path.segs, n + 1, Len(path.segs)) \in m.files

Prefixed == {<<>>, <<"s">>, <<"s2">>, <<"s", "t">>}
MountCalls ==
    [kind : {"asgi", "app"}, prefix : [segs : Prefixed, slash : BOOLEAN], files : {{}}]
    \cup [kind : {"static"}, prefix : [segs : Prefixed, slash : BOOLEAN], files : {{<<"t">>}, {<<"2">>}}]
MountCases == [calls : SeqOf(MountCalls, 2), path : [segs : SeqOf({"s", "s2", "t"}, 2), slash : BOOLEAN]]

(* "Mount prefix overlaps the already-mounted prefix": no path is under    *)
(* two mounts, so which was mounted first never matters.  The prefixes of  *)
(* static directories are written without a final slash.                   *)
MountsAreApart(c) ==
    (\A i \in DOMAIN c.calls : c.calls[i].kind = "static" => ~c.calls[i].prefix.slash)
    => \A i, j \in DOMAIN Mounted(c.calls) :
           i # j => ~(Claims(Mounted(c.calls)[i], c.path) /\ Claims(Mounted(c.calls)[j], c.path))

(* The same with mount_static("/s/") after mount("/s/t"): not refused.     *)
AnyMountsAreApart(c) ==
    \A i, j \in DOMAIN Mounted(c.calls) :
        i # j => ~(Claims(Mounted(c.calls)[i], c.path) /\ Claims(Mounted(c.calls)[j], c.path))

(* A static directory answers for paths under its prefix, as mount() does; *)
(* StaticFiles("/s") also answers for "/s2".                               *)
StaticStaysUnderPrefix(c) ==
    \A i \in DOMAIN Mounted(c.calls) :
        Mounted(c.calls)[i].kind = "static" /\ static_serves(Mounted(c.calls)[i], c.path)
        => Claims(Mounted(c.calls)[i], c.path)

-----------------------------------------------------------------------------
(* The middleware of an app, outermost first.                              *)

ByPriority(r, s) == r.priority > s.priority \/ (r.priority = s.priority /\ r.seq < s.seq)

AppendPlain(mw, priority) ==
    LET rec == [priority |-> priority, seq |-> Len(mw.records) + 1]
        records == Append(mw.records, rec)
    IN  [records |-> records, any |-> priority # 0,
         order |-> IF priority # 0 THEN SortSeq(records, ByPriority) ELSE Append(mw.order, rec)]

(* _register_middleware: the list is sorted once any priority was given.   *)
register_middleware(mw, priority) ==
    LET rec == [priority |-> priority, seq |-> Len(mw.records) + 1]
        records == Append(mw.records, rec)
        any == mw.any \/ priority # 0
    IN  [records |-> records, any |-> any,
         order |-> IF any THEN SortSeq(records, ByPriority) ELSE Append(mw.order, rec)]

PriorityCases == SeqOf({-1, 0, 1}, 4)

(* middleware.md:722: a higher priority is further out, and equal   *)
(* ones keep the order they were added in, whenever the first priority is  *)
(* given.                                                                  *)
PriorityDecides(c) ==
    LET mw == FoldLeft(register_middleware, [records |-> <<>>, any |-> FALSE, order |-> <<>>], c)
    IN  \A i, j \in DOMAIN mw.order : i < j => ByPriority(mw.order[i], mw.order[j])
=============================================================================
