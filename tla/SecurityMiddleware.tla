------------------------- MODULE SecurityMiddleware -------------------------
(***************************************************************************)
(* Decisions taken before a handler runs (middleware/csrf.py,              *)
(* proxy_fix.py, security.py, http/datastructures.py: URL): the token      *)
(* cookie against cross-site requests, what is believed of the headers of  *)
(* proxies, and the redirect to https.                                     *)
(***************************************************************************)
EXTENDS Integers, Sequences, SequencesExt, FiniteSets

Absent == "absent"

-----------------------------------------------------------------------------
(* CSRFMiddleware.  A cookie: which token, whether the signature is ours   *)
(* and when it was made.  "fresh" is the token a response would hand out.  *)
Safe == {"GET", "HEAD", "OPTIONS", "QUERY", "TRACE"}
NoCookie == [token |-> Absent, signed |-> FALSE, at |-> 0]
NewCookie(conf, now) == [token |-> "fresh", signed |-> conf.secret, at |-> now]

(* Signer.loads with max_age.                                              *)
loads(conf, cookie, now) == cookie.signed /\ (conf.maxAge # 0 => now - cookie.at <= conf.maxAge)

(* _origin_allowed: our own, a trusted one, or one under a trusted suffix. *)
csrf_origin_allowed(conf, origin) ==
    \/ origin = "own"
    \/ origin = "listed" /\ conf.trusted \in {"listed", "suffix"}
    \/ origin = "sub" /\ conf.trusted = "suffix"

(* _verify_origin: Origin, or under https the Referer.                     *)
verify_origin(conf, q) ==
    IF q.origin # Absent THEN csrf_origin_allowed(conf, q.origin)
    ELSE q.https => q.referer # Absent /\ csrf_origin_allowed(conf, q.referer)

(* process_request: passed, refused, or refused with the token to be       *)
(* replaced.                                                               *)
check_csrf(conf, q, now) ==
    CASE q.method \in Safe -> "passed"
      [] q.method \notin Safe /\ conf.trusted # "none" /\ ~verify_origin(conf, q) -> "origin"
      [] q.method \notin Safe /\ (conf.trusted = "none" \/ verify_origin(conf, q)) ->
            CASE q.cookie = NoCookie -> "missing"
              [] q.cookie # NoCookie /\ conf.secret /\ ~loads(conf, q.cookie, now) -> "expired"
              [] OTHER -> IF q.cookie.token \in {q.header, q.form} THEN "passed" ELSE "mismatch"

(* process_response: a cookie for who has none, or whose is to be replaced *)
(* (an expired one, or after rotate_csrf_token).                           *)
OnlyWhenMissing(conf, q, verdict, now) == IF q.cookie = NoCookie THEN NewCookie(conf, now) ELSE q.cookie

set_csrf_cookie(conf, q, verdict, now) ==
    IF q.cookie = NoCookie \/ verdict = "expired" \/ (verdict = "passed" /\ q.rotates)
    THEN NewCookie(conf, now) ELSE q.cookie

Tokens == {"old", "other", "fresh"}
Cookies == {NoCookie} \cup [token : {"old"}, signed : BOOLEAN, at : 0 .. 1]
CsrfConfs == {c \in [secret : BOOLEAN, maxAge : {0, 1}, trusted : {"none", "listed", "suffix"}] : c.maxAge # 0 => c.secret}
CsrfRequests ==
    [method : {"GET", "POST"}, origin : {Absent, "own", "listed", "sub", "elsewhere"}, referer : {Absent, "own", "elsewhere"},
     https : BOOLEAN, cookie : Cookies, header : {Absent, "old", "other"}, form : {Absent, "old"}, rotates : BOOLEAN]
CsrfCases == [conf : CsrfConfs, q : CsrfRequests, now : 1 .. 2]

(* Who was refused for its token, or got through, gets through next time   *)
(* with the cookie it then has, as the page would send it.                 *)
EchoingPasses(x) ==
    LET verdict == check_csrf(x.conf, x.q, x.now)
        jar == set_csrf_cookie(x.conf, x.q, verdict, x.now)
        again == [x.q EXCEPT !.cookie = jar, !.header = jar.token]
    IN  x.q.method \notin Safe /\ verdict # "origin" => check_csrf(x.conf, again, x.now) = "passed"

(* After any GET the same.  Not kept: an expired token is only replaced by *)
(* the refusal of an unsafe request, so the first form after it is lost.   *)
FirstFormPasses(x) ==
    LET jar == set_csrf_cookie(x.conf, x.q, "passed", x.now)
        post == [x.q EXCEPT !.method = "POST", !.cookie = jar, !.header = jar.token]
    IN  x.q.method = "GET" /\ x.conf.trusted = "none" => check_csrf(x.conf, post, x.now) = "passed"

-----------------------------------------------------------------------------
(* ProxyFix.  A header is a list of hops, the client's first; a hop of     *)
(* Forwarded says something of each directive or not, and a client may     *)
(* leave a quote open, which makes the whole header unreadable.            *)
Directives == {"for", "proto", "host"}

(* _pick_hop: counted from the server.                                     *)
FirstHop(hops, n) == IF n = 0 \/ Len(hops) < n THEN Absent ELSE hops[n]

pick_hop(hops, n) == IF n = 0 \/ Len(hops) < n THEN Absent ELSE hops[Len(hops) + 1 - n]

(* _parse_forwarded.                                                       *)
parse_forwarded(forwarded, n, directive) ==
    IF "open quote" \in Range(forwarded) THEN Absent
    ELSE LET hop == pick_hop(forwarded, n)
         IN  IF hop = directive \o " of the proxy" \/ hop = directive \o " of the client" THEN hop ELSE Absent

(* process_request: Forwarded where it is trusted and there, else each     *)
(* header of its own.                                                      *)
believed(conf, h, directive) ==
    IF conf.forwarded /\ h.forwarded[directive] # <<>> THEN parse_forwarded(h.forwarded[directive], conf.hops, directive)
    ELSE pick_hop(h.own[directive], conf.hops)

(* What arrives: what the client sent, then what each of the trusted       *)
(* proxies appended.  The hop the server counts to is the outermost proxy. *)
Hop(directive, who) == directive \o " of the " \o who
Appended(directive, n) == [i \in 1 .. n |-> IF i = 1 THEN Hop(directive, "proxy") ELSE Hop(directive, "inner proxy")]
Claims(directive) == {<<>>, <<Hop(directive, "client")>>, <<Hop(directive, "client"), Hop(directive, "client")>>}
Quoted(directive) == Claims(directive) \cup {<<"open quote">>}

Arrives(claim, directive, n, writes) == IF writes THEN claim \o Appended(directive, n) ELSE claim

ProxyCases ==
    [directive : Directives, hops : 1 .. 2, forwarded : BOOLEAN, claim : {0, 1, 2}, quoted : BOOLEAN, writesForwarded : BOOLEAN]

Claim(x) == [i \in 1 .. x.claim |-> Hop(x.directive, "client")]

Believed(x) ==
    LET conf == [forwarded |-> x.forwarded, hops |-> x.hops]
        quoted == IF x.quoted THEN <<"open quote">> ELSE Claim(x)
        h == [forwarded |-> [d \in Directives |-> Arrives(quoted, d, x.hops, x.writesForwarded)],
              own |-> [d \in Directives |-> Arrives(Claim(x), d, x.hops, ~x.writesForwarded)]]
    IN  believed(conf, h, x.directive)

(* proxy_fix.py: with the number of proxies set to how many there are, and *)
(* Forwarded trusted when it is what they write, what is believed of a     *)
(* request is what the outermost proxy said, whatever the client claimed.  *)
ProxyIsBelieved(x) ==
    x.forwarded = x.writesForwarded => Believed(x) \in {Hop(x.directive, "proxy"), Absent}
        /\ (~x.quoted => Believed(x) = Hop(x.directive, "proxy"))

-----------------------------------------------------------------------------
(* The scheme of a request (URL.from_request) and HTTPSRedirectMiddleware. *)
(* x: ProxyFix installed and how it runs, before or after the redirect;    *)
(* the scheme between the proxy and the server; who ends TLS; whether it   *)
(* is an MCP call replayed as a request, or its path is an exempt one.     *)
Headers(x, https) == IF x.proxied THEN (IF https THEN "https" ELSE "http") ELSE Absent
Direct(x, https) == IF x.proxied THEN "http" ELSE IF https THEN "https" ELSE "http"

AppliedOnly(x, https, applied) == IF applied THEN "http" ELSE Direct(x, https)

scheme(x, https, applied) ==
    IF applied /\ x.xProto > 0 /\ Headers(x, https) # Absent THEN Headers(x, https)
    ELSE IF x.scope THEN Direct(x, https)
    ELSE IF ~applied /\ Headers(x, https) = "https" THEN "https"
    ELSE Direct(x, https)

https_redirect(x, https) ==
    LET applied == x.proxyFix /\ x.fixFirst
    IN  /\ ~x.mcp
        /\ ~(scheme(x, https, applied) = "https" \/ (~applied /\ Headers(x, https) = "https"))
        /\ ~x.exempt

RedirectCases ==
    {x \in [proxied : BOOLEAN, proxyFix : BOOLEAN, fixFirst : BOOLEAN, xProto : 0 .. 1, scope : BOOLEAN,
            mcp : BOOLEAN, exempt : BOOLEAN] :
        x.proxyFix => x.proxied}

(* A client that follows the redirect to https is not redirected again,    *)
(* unless a ProxyFix that believes no scheme runs before it.               *)
RedirectSettles(x) == ~(x.proxyFix /\ x.fixFirst /\ x.xProto = 0) => ~https_redirect(x, TRUE)

-----------------------------------------------------------------------------
(***************************************************************************)
(* The hardening middlewares of middleware/security.py: the nonce that     *)
(* CSPMiddleware shares between the page and its policy headers, beside    *)
(* SecurityHeadersMiddleware; and the allow-lists of hosts and of          *)
(* WebSocket origins, which HTTP requests and the handshakes of the two    *)
(* transports each consult on their own path.                              *)
(***************************************************************************)

(***************************************************************************)
(* Policies and nonces.  A template is absent, plain, or mentions {nonce}. *)
(* The slot of a request holds None, Armed (the factory) or the nonce      *)
(* drawn; nonces are numbered as they are drawn.  A header holds Unsent,   *)
(* None (a policy without nonce) or the nonce it names.                    *)
(***************************************************************************)
None == -1
Armed == 0
Unsent == -2
Templates == {"absent", "plain", "nonce"}
PolicyHeaders == {"enforce", "report"}

(* CSPMiddleware.__init__ refuses to have no policy at all; a              *)
(* SecurityHeadersMiddleware may carry a fixed policy.                     *)
CspMiddlewares ==
    {mw \in [kind : {"csp"}, enforce : Templates, report : Templates] :
        mw.enforce # "absent" \/ mw.report # "absent"}
HeaderMiddlewares == [kind : {"headers"}, enforce : {"absent", "plain"}, report : {"absent"}]
Middlewares == CspMiddlewares \cup HeaderMiddlewares

needs_nonce(mw) == mw.kind = "csp" /\ "nonce" \in {mw.enforce, mw.report}

process_request(st, mw) == IF needs_nonce(mw) THEN [st EXCEPT !.slot = Armed] ELSE st

DrawnAnew(st) ==
    IF st.slot = Armed THEN [st EXCEPT !.drawn = @ + 1, !.got = st.drawn + 1]
    ELSE [st EXCEPT !.got = st.slot]

(* csp_nonce: the factory is called once, its value kept.                  *)
csp_nonce(st) ==
    IF st.slot = Armed THEN [st EXCEPT !.slot = st.drawn + 1, !.drawn = @ + 1, !.got = st.drawn + 1]
    ELSE [st EXCEPT !.got = st.slot]

(* The nonce of a header: none armed, because an earlier middleware        *)
(* answered, mints one.                                                    *)
MintUnarmed(st) ==
    IF st.got # None THEN st
    ELSE [st EXCEPT !.slot = st.drawn + 1, !.drawn = @ + 1, !.got = st.drawn + 1]

set_policy(st, header, template) ==
    IF template = "absent" \/ st.headers[header] # Unsent THEN st
    ELSE IF template = "plain" THEN [st EXCEPT !.headers[header] = None]
    ELSE LET minted == MintUnarmed(csp_nonce(st))
         IN  [minted EXCEPT !.headers[header] = minted.got]

process_response(st, mw) ==
    set_policy(set_policy(st, "enforce", mw.enforce), "report", mw.report)

(* A page that asks for its nonce.                                         *)
Render(st) == LET asked == csp_nonce(st) IN [asked EXCEPT !.pages = @ \cup {asked.got}]

(* One request through a chain.  reached: how many process_request ran     *)
(* before one of the middlewares, or the handler, answered; asks: who      *)
(* rendered a nonce, the answer or its stream after the headers went; own: *)
(* the answer came with a policy of its own.                               *)
Exchange(x) ==
    LET start == [slot |-> None, drawn |-> 0, got |-> None, pages |-> {},
                  headers |-> [h \in PolicyHeaders |-> IF x.own /\ h = "enforce" THEN None ELSE Unsent]]
        asked == FoldLeft(process_request, start, SubSeq(x.chain, 1, x.reached))
        answered == IF "answer" \in x.asks THEN Render(asked) ELSE asked
        sent == FoldLeft(process_response, answered, Reverse(x.chain))
    IN  IF "stream" \in x.asks THEN Render(sent) ELSE sent

CspCases ==
    {x \in [chain : BoundedSeq(Middlewares, 2) \ {<<>>}, reached : 0 .. 2, asks : SUBSET {"answer", "stream"}, own : BOOLEAN] :
        x.reached <= Len(x.chain)}

(* The nonce of a page and those of both policies are one, however many    *)
(* middlewares and whenever it is asked for: the browser runs no script    *)
(* whose nonce is another (middleware.md, "fails silently").               *)
OneNoncePerAnswer(x) ==
    LET end == Exchange(x)
    IN  Cardinality((end.pages \cup {end.headers[h] : h \in PolicyHeaders}) \ {None, Unsent}) <= 1

(* A page that asks gets the nonce of the policy that is sent.  Not kept:  *)
(* a page of a middleware that answers before CSPMiddleware ran asks       *)
(* before the nonce is minted.                                             *)
EveryPageHasItsNonce(x) ==
    LET end == Exchange(x) IN end.headers["enforce"] > 0 => end.pages \subseteq {end.headers["enforce"]}

(* Where a nonce policy is enforced by the outermost middleware it is what *)
(* is sent.  Not kept: a SecurityHeadersMiddleware further in has set its  *)
(* own, and the page's scripts do not run.                                 *)
PolicyIsSent(x) ==
    x.chain[1].enforce = "nonce" /\ ~x.own => Exchange(x).headers["enforce"] > 0

-----------------------------------------------------------------------------
(* Allow-lists.  A host header is a name, compared in lower case, with or  *)
(* without a port; an IPv6 address is bracketed or bare.                   *)
Names == {"example.com", "api.example.com", "notexample.com", "::1"}
Spellings == {s \in [name : Names, port : BOOLEAN, bracketed : BOOLEAN] : s.bracketed => s.name = "::1"}
colons(s) == (IF s.name = "::1" THEN 2 ELSE 0) + (IF s.port THEN 1 ELSE 0)

(* _extract_host: what is within the brackets; all of it where there are   *)
(* two colons, which with a port is another address; else up to the colon. *)
extract_host(s) ==
    IF ~s.bracketed /\ colons(s) >= 2 /\ s.port THEN "::1:port" ELSE s.name

FirstColon(s) == IF ~s.bracketed /\ colons(s) >= 1 /\ s.name = "::1" THEN "" ELSE s.name

(* TrustedHostMiddleware: exact entries, *.suffix entries, or everything.  *)
Entries == {"*", "*.example.com", "example.com", "::1", "[::1]"}
ends_with_dotted(host, entry) == entry = "*.example.com" /\ host = "api.example.com"

is_host_allowed(hosts, host) ==
    "*" \in hosts \/ host \in hosts \ {"*.example.com"} \/ \E e \in hosts : ends_with_dotted(host, e)

(* WebSocketOriginMiddleware: origins without trailing slash, lowered.     *)
Origins == {"", "https://a", "https://a/", "https://b"}
strip(origin) == IF origin = "https://a/" THEN "https://a" ELSE origin

is_websocket_origin_allowed(conf, origin) ==
    CASE "*" \in conf.origins -> TRUE
      [] "*" \notin conf.origins /\ origin = "" -> conf.allow_missing
      [] OTHER -> strip(origin) \in {strip(o) : o \in conf.origins}

(* An HTTP request; MCP's own requests are checked by its transport.       *)
admit_http(conf, s, mcp) == mcp \/ is_host_allowed(conf.hosts, extract_host(s))

(* A handshake: _ws_handshake_rejection over the middlewares (native) or   *)
(* the pairs of build_ws_handshake_checks (ASGI), in either order.         *)
admit_websocket(conf, s, origin) ==
    is_host_allowed(conf.hosts, extract_host(s)) /\ is_websocket_origin_allowed(conf, origin)

HostCases ==
    [conf : [hosts : SUBSET Entries \ {{}}, origins : {{"*"}, {"https://a"}, {"https://a/"}}, allow_missing : BOOLEAN],
     s : Spellings, origin : Origins]

(* A host is served exactly if an entry names it: with a port or without,  *)
(* for a request as for a handshake from a listed origin, and never        *)
(* because it merely ends like a listed one.                               *)
HostsAreNamed(x) ==
    LET named == \/ "*" \in x.conf.hosts
                 \/ x.s.name \in x.conf.hosts
                 \/ x.s.name = "api.example.com" /\ "*.example.com" \in x.conf.hosts
    IN  ~(x.s.name = "::1" /\ x.s.port /\ ~x.s.bracketed) =>
            /\ admit_http(x.conf, x.s, FALSE) = named
            /\ x.origin = "https://a" => admit_websocket(x.conf, x.s, x.origin) = named

(* An IPv6 host may be listed the way the header spells it.  Not kept:     *)
(* entries are not stripped of brackets as the header is.                  *)
BracketsMayBeListed(x) == "[::1]" \in x.conf.hosts /\ x.s.name = "::1" /\ x.s.bracketed => admit_http(x.conf, x.s, FALSE)

-----------------------------------------------------------------------------
(***************************************************************************)
(* RateLimitMiddleware: which strategy a request is evaluated by and which *)
(* counter it draws on.  The strategies themselves, and the store, are the *)
(* module RateLimit; Redis is RedisLimits.                                 *)
(*                                                                         *)
(* A limit comes from the `overrides` of the middleware, from @rate_limit  *)
(* on a handler, or from the default, which is a strategy or the older     *)
(* sliding log.  The caller is what key_func names, or else the peer, the  *)
(* last forwarded hop, the user agent, the subject of an MCP call, or      *)
(* nobody: a counter of its own.                                           *)
(***************************************************************************)

LimitedTemplates == {"/a", "/b"}

Handlers(template) == [method : {"GET", "POST"}, template : {template}, tag : {"none", "tagged"}]

(* The routes of an application in registration order, never the same      *)
(* method and template twice.                                              *)
RouteTables ==
    {t \in UNION {Handlers(a) \X Handlers(b) : a \in {"/a"}, b \in LimitedTemplates} :
        <<t[1].method, t[1].template>> # <<t[2].method, t[2].template>>}

(* What of its caller a request shows, in the order it is asked for.       *)
Signals == <<"host", "xff", "ua", "sub">>

Requests ==
    [route : 0 .. 2, named : {"none", "x"},
     shows : {Range(Signals), {}} \cup {{Signals[i]} : i \in DOMAIN Signals}]

(* __init__ refuses overrides without a strategy.                          *)
Configured(c) == c.legacy => c.overrides = {}

LimitCases ==
    {c \in [routes : RouteTables, legacy : BOOLEAN, overrides : SUBSET {"/a", "/typo"},
            one : Requests, two : Requests] : Configured(c)}

----------------------------------------------------------------------------
(* _collect_route_strategies and _build_route_strategies: by template, a   *)
(* later handler's tag over an earlier one's, `overrides` over both.       *)
TaggedAt(c, template) ==
    {i \in 1 .. 2 : c.routes[i].template = template /\ c.routes[i].tag = "tagged"}

_build_route_strategies(c, template) ==
    IF template \in c.overrides THEN <<"override", template>>
    ELSE IF TaggedAt(c, template) = {} THEN <<"none">>
    ELSE <<"tag", CHOOSE i \in TaggedAt(c, template) : \A j \in TaggedAt(c, template) : j <= i>>

url_rule(c, r) == IF r.route = 0 THEN "none" ELSE c.routes[r.route].template

_route_override(c, r) ==
    IF r.route = 0 THEN <<"none">> ELSE _build_route_strategies(c, url_rule(c, r))

(* _bucket_key and the caller of process_request; `n` is the request, for  *)
(* the counter nobody else shares.                                         *)
_bucket_key(r, n) ==
    LET shown == SelectSeq(Signals, LAMBDA s : s \in r.shows) IN
    IF shown = <<>> THEN <<"scope", n>> ELSE <<shown[1], "the same">>

caller(r, n) == IF r.named # "none" THEN <<"key", r.named>> ELSE _bucket_key(r, n)

(* _process_strategy and _process_legacy: the counter, in the backend or   *)
(* in the sliding log, and the strategy that reads and writes it.          *)
counter_key(c, r, n) ==
    IF _route_override(c, r) = <<"none">>
    THEN <<IF c.legacy THEN "log" ELSE "backend", "any route", caller(r, n)>>
    ELSE <<"backend", url_rule(c, r), caller(r, n)>>

CallerOnly(c, r, n) ==
    <<IF c.legacy THEN "log" ELSE "backend", "any route", caller(r, n)>>

evaluated_by(c, r) ==
    IF _route_override(c, r) = <<"none">> THEN <<"default">> ELSE _route_override(c, r)

----------------------------------------------------------------------------
(* A counter has one strategy: the state one strategy stored is never read *)
(* by another, whose state has another shape.                              *)
OneStrategyPerCounter(c) ==
    Configured(c) =>
        ( counter_key(c, c.one, 1) = counter_key(c, c.two, 2)
          => evaluated_by(c, c.one) = evaluated_by(c, c.two) )

(* One caller is not let past a limit by being counted twice: requests of  *)
(* the same named or addressed caller under the same limit share a counter. *)
OneCounterPerCaller(c) ==
    ( /\ Configured(c)
      /\ caller(c.one, 1) = caller(c.two, 2)
      /\ evaluated_by(c, c.one) = evaluated_by(c, c.two) )
    => counter_key(c, c.one, 1) = counter_key(c, c.two, 2)

(* A decorated handler is limited by its own strategy, another by the      *)
(* default: not when two methods of one template differ.                   *)
TagsAreOfTheirHandler(c) ==
    (Configured(c) /\ c.one.route # 0 /\ url_rule(c, c.one) \notin c.overrides) =>
        evaluated_by(c, c.one) =
            (IF c.routes[c.one.route].tag = "tagged" THEN <<"tag", c.one.route>>
             ELSE <<"default">>)
=============================================================================
