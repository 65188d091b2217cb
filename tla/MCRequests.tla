----------------------------- MODULE MCRequests -----------------------------
(***************************************************************************)
(* What an application makes of a request, for TLC: the router,            *)
(* blueprints, dependency injection, and the operators from request to     *)
(* answer (MCWeb).  The models do not share state, so a behaviour is one   *)
(* of one of them: `which` names it and s1, s2, ... are its variables.     *)
(***************************************************************************)
EXTENDS Integers

\* Dependency graphs of up to three dependencies under a handler, as Injection
\* takes them.
Deps == {"h", "a", "b", "c"}
Identity == [d \in Deps |-> d]
Dep(d, cache, scopes) == [dep |-> d, cache |-> cache, scopes |-> scopes]
Plain(d) == Dep(d, TRUE, <<>>)

(* a and b may both need c, b may need a; c may be asked for directly.     *)
Shapes ==
    {[h |-> top, a |-> ofA, b |-> ofB, c |-> <<>>] :
        top \in {<<Plain("a"), Plain("b")>>, <<Plain("a"), Plain("b"), Plain("c")>>,
                 <<Dep("a", FALSE, <<>>), Dep("b", TRUE, <<>>), Plain("a")>>,
                 <<Dep("a", TRUE, <<"s">>), Plain("b")>>,
                 <<Dep("a", TRUE, <<"s">>), Dep("b", TRUE, <<"t">>), Plain("c")>>},
        ofA \in {<<>>, <<Plain("c")>>},
        ofB \in {<<>>, <<Plain("c")>>, <<Dep("c", TRUE, <<"t">>)>>, <<Plain("a")>>}}

Kinds == {k \in [Deps -> {"coro", "gen"}] : k["h"] = "coro"}

TestGraphs ==
    {[subs |-> s, kind |-> k, reads |-> r, route |-> <<>>, over |-> Identity] :
        s \in Shapes, k \in Kinds, r \in {{}, {"c"}}}
    \cup {[subs |-> [h |-> <<Plain("a"), Plain("b")>>, a |-> <<Plain("c")>>, b |-> <<>>, c |-> <<>>],
           kind |-> k, reads |-> {"c"}, route |-> <<Dep("c", TRUE, <<"s">>)>>, over |-> Identity] : k \in Kinds}

Word(n) == [kind |-> "static", name |-> n, conv |-> "none"]
Var(n, conv) == [kind |-> "param", name |-> n, conv |-> conv]
Any == [kind |-> "star", name |-> "_wildcard", conv |-> "none"]
Route(segs, slash, methods) ==
    [segs |-> segs, slash |-> slash, tolerant |-> FALSE, methods |-> methods]

(* Templates that share and shadow each other's nodes.                     *)
AllRoutes ==
    {Route(<<>>, FALSE, {"GET"}),
     Route(<<Word("a")>>, FALSE, {"GET"}),
     Route(<<Word("a")>>, TRUE, {"GET", "POST"}),
     [Route(<<Word("a")>>, FALSE, {"POST"}) EXCEPT !.tolerant = TRUE],
     Route(<<Var("x", "int")>>, FALSE, {"GET"}),
     Route(<<Var("x", "str")>>, TRUE, {"GET"}),
     Route(<<Var("x", "int"), Word("b")>>, FALSE, {"GET"}),
     Route(<<Word("a"), Var("x", "int")>>, TRUE, {"POST"}),
     Route(<<Word("a"), Word("b")>>, FALSE, {"GET"}),
     Route(<<Word("a"), Var("p", "path")>>, FALSE, {"GET"}),
     Route(<<Word("a"), Var("x", "any_ab")>>, FALSE, {"GET"}),
     Route(<<Any>>, FALSE, {"GET"})}

\* One any(a,b): two of one name at one place share a node (the README).
Choices == [c \in {"any_ab"} |-> {"a", "b"}]


VARIABLES which, s1, s2, s3, s4, s5, s6, s7, s8, s9, s10, s11, s12, s13

Router == INSTANCE Routing WITH
    tree <- s1, named <- s2, literal <- s3, policy <- s4, adds <- s5, refused <-
    s6,
    Words <- {"a", "b", "7"}, Digits <- {"7"}, Templates <- AllRoutes, AnyOf <- Choices,
    MaxLen <- 2, MaxAdds <- 3, Policies <- {"error", "override"}

Bps == INSTANCE Blueprints WITH
    own <- s1, errs <- s2, scoped <- s3, scopedErrs <- s4, routes <- s5, byName
    <- s6, bpHooks <- s7, bpErrs <- s8, appErrs <- s9, mounted <- s10, tidy <-
    s11, kind <- s12, ops <- s13,
    Blueprints <- {"a", "b", "c"}, NameOf <- [b \in {"a", "b", "c"} |-> b],
    Kinds <- {"hooks", "handlers"}, MaxOps <- 4

Di == INSTANCE Injection WITH
    graph <- s1, caller <- s2, act <- s3, stack <- s4, cache <- s5, teardowns <-
    s6, torn <- s7, trace <- s8, seen <- s9, phase <- s10,
    Handler <- "h", Graphs <- TestGraphs

Web == INSTANCE MCWeb WITH
    about <- s1, x <- s2

\* The bounds of the instance make sense.
ASSUME RequestsAssumption == Router!RoutingAssumption

Init ==
    \/ which = "routing" /\ Router!Init
       /\ s7 = 0 /\ s8 = 0 /\ s9 = 0 /\ s10 = 0 /\ s11 = 0 /\ s12 = 0 /\ s13 = 0
    \/ which = "blueprints" /\ Bps!Init
    \/ which = "injection" /\ Di!Init
       /\ s11 = 0 /\ s12 = 0 /\ s13 = 0
    \/ which = "operators" /\ Web!Init
       /\ s3 = 0 /\ s4 = 0 /\ s5 = 0 /\ s6 = 0 /\ s7 = 0 /\ s8 = 0 /\ s9 = 0 /\ s10 = 0 /\ s11 = 0 /\ s12 = 0 /\ s13 = 0

Next ==
    \/ which = "routing" /\ Router!Next
       /\ UNCHANGED <<which, s7, s8, s9, s10, s11, s12, s13>>
    \/ which = "blueprints" /\ Bps!Next
       /\ UNCHANGED which
    \/ which = "injection" /\ Di!Next
       /\ UNCHANGED <<which, s11, s12, s13>>
    \/ which = "operators" /\ Web!Next
       /\ UNCHANGED <<which, s3, s4, s5, s6, s7, s8, s9, s10, s11, s12, s13>>

Spec == Init /\ [][Next]_<<which, s1, s2, s3, s4, s5, s6, s7, s8, s9, s10, s11, s12, s13>>


\* What a path matches covers it, what some route covers is found, the map of
\* the literal paths answers as the tree, and a URL built from a name comes
\* back to that route with its values, unless a more specific one, or an
\* earlier one as specific, is in the way or another registration took its
\* handlers (router.py).
RoutesAndUrlsAgree ==
    which = "routing" => Router!MatchIsCovered /\ Router!UrlsResolve /\ Router!StaticMapAgrees /\ Router!CoveredIsFound

\* A route of a blueprint runs the hooks of its own ancestry, each once; when
\* every call succeeded, its errors reach the nearest handler of that
\* ancestry (blueprints.py).
ScopesApply ==
    which = "blueprints" => Bps!OnlyItsOwnHooks /\ Bps!TidyScopesApply

\* A cached dependency runs once per key, a dependency sees the scopes of its
\* own path, and no provider is torn down before its users, however the waves
\* interleave; the generated resolver makes the calls of the interpreter
\* (dependency.py, _resolver_codegen.py).
DependenciesInOrder ==
    which = "injection" => Di!CachedRunsOnce /\ Di!OwnScopes /\ Di!ProvidersOutlive /\ Di!CompiledAgrees

\* A handler is given what its declaration allows, whoever reads it: the
\* interpreter of plans and the generated resolver answer every request
\* alike, with typed values or a refusal; an argument of a tool is the value
\* that was sent; a form is refused exactly at its limits and leaks no spool;
\* Accept, the message of a listener and a JSON body are read alike in any
\* order (dependency.py, _resolver_codegen.py, plan_bridge.py,
\* formparsers.py, _ws_listener.py, request.py).
ReadAsDeclared ==
    which = "operators" => Web!TypedOrRefused /\ Web!ResolversAgree /\ Web!OptionalMayBeOmitted /\ Web!DeliveredAsDeclared /\ Web!ConformingIsTaken /\ Web!NoSpoolLeaks /\ Web!LimitsAreExact /\ Web!NegotiatedIsWanted /\ Web!ListenersAreUnambiguous /\ Web!JsonDoorsAgree

\* An answer is framed as it advertises, a cache that obeys Vary hands nobody
\* an answer made for another, who has the current representation is told so,
\* nothing outside the response model leaves, and fields and cookies go out
\* as they were set (response.py, cors.py, compression.py, conditional.py,
\* dispatch.py).
AnsweredAsMeant ==
    which = "operators" => Web!VaryIsEnough /\ Web!FramedAsAdvertised /\ Web!RevalidationWorks /\ Web!UndeclaredFieldsDrop /\ Web!StatusIsTheHandlers /\ Web!MadeAsDispatched /\ Web!FieldsAreKept

\* Parts of a file fetched under If-Range are never of two versions, a range
\* is what the file has of it, what a static directory serves is inside it,
\* and a path is under one mount (staticfiles.py, core.py).
ServedFromItsPlace ==
    which = "operators" => Web!PartsOfOneVersion /\ Web!RangesAreExact /\ Web!TagsTellTimesApart /\ Web!ServedFromTree /\ Web!IndexUnderSlash /\ Web!MountsAreApart /\ Web!PriorityDecides

\* A plan of MCP calls runs in order and nothing runs after the one that
\* stopped it; what is listed, searched, paged and hidden is one catalogue,
\* in its versions; every request is answered (contrib/mcp).
McpServesAsDeclared ==
    which = "operators" => Web!PlansRunAsDeclared /\ Web!VersionsAreKept /\ Web!PublicIsShared /\ Web!SearchAnswersAlike /\ Web!PagesAreComplete /\ Web!DerivedCallsBind /\ Web!TranscriptsAreAnswered /\ Web!HidingIsTold /\ Web!RequestsAreAnswered /\ Web!ConformingCallsAreTold

\* One login leaves a password verifier that accepts the same passwords and
\* needs no second upgrade; a token is good exactly for its life; of schemes
\* side by side the one a header names takes it; the last login counts
\* (passwords.py, security).
CredentialsHold ==
    which = "operators" => Web!RehashSettles /\ Web!AlternativesCompose /\ Web!TokensLiveTheirLife /\ Web!LastLoginCounts

\* The nonce of a page and those of both policies are one; what is believed
\* of a proxied request is what the outermost trusted proxy said; who does as
\* a refusal or a redirect says gets through; counters are of one caller and
\* one strategy (middleware).
PoliciesHold ==
    which = "operators" => Web!OneNoncePerAnswer /\ Web!EchoingPasses /\ Web!ProxyIsBelieved /\ Web!RedirectSettles /\ Web!OneStrategyPerCounter /\ Web!OneCounterPerCaller /\ Web!HostsAreNamed

\* Either test client sends what the call says, whichever verb it is spelt
\* with, follows redirects to an end with the cookies of each hop, and reads
\* each response to its end (testclient.py, liveserver.py).
HarnessIsFaithful ==
    which = "operators" => Web!RedirectsSettle /\ Web!HopsCarryCookies /\ Web!ReaderStaysInStep /\ Web!VerbsAgree

=============================================================================
