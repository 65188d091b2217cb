------------------------------ MODULE Routing ------------------------------
(***************************************************************************)
(* The router (routing/router.py, routing/_node.py, routing/converters.py) *)
(* and the part of dispatch that turns a match into an answer              *)
(* (app/dispatch.py, _resolve_route): registration into a radix tree, a    *)
(* cached map of the literal paths, matching with backtracking, the two    *)
(* slash forms of a path, 405 against 404, reverse lookup by name, and the *)
(* inclusion of one router in another.                                     *)
(* A node of the tree is named by the segments that lead to it.  A request *)
(* path is its segments and whether it ends in a slash.                    *)
(***************************************************************************)
EXTENDS Integers, Sequences, FiniteSets, SequencesExt

CONSTANTS Words,      \* segments a request may carry; "" for a doubled slash
          Digits,     \* those that are numbers
          Templates,  \* templates a route may be registered with
          MaxLen,     \* bound on the segments of a request
          MaxAdds,    \* bound on registrations
          Policies,   \* on_duplicate
          AnyOf     \* AnyOf[c]: the values of an any(...) converter

RoutingAssumption == Digits \subseteq Words /\ MaxLen \in Nat /\ MaxAdds \in Nat

VARIABLES tree,     \* tree[r]: node -> handlers, converter and slash flags
          named,    \* named[r]: route name -> template (_named_routes)
          literal,  \* the cached static map of the app, or Stale
          policy,   \* on_duplicate
          adds,     \* registrations attempted
          refused   \* whether the last registration raised

vars == <<tree, named, literal, policy, adds, refused>>

Routers == {"app", "sub"}
Methods == {"GET", "POST", "HEAD"}

-----------------------------------------------------------------------------
(* Segments of a template: a literal, {name:converter} or the wildcard.    *)

Lit(w) == [kind |-> "static", name |-> w, conv |-> "none"]
Param(n, c) == [kind |-> "param", name |-> n, conv |-> c]
Star == [kind |-> "star", name |-> "_wildcard", conv |-> "none"]

Greedy(conv) == conv = "path"

(* Converter.specificity: the order competing parameters are tried in.     *)
specificity(conv) ==
    CASE conv = "int" -> 20 [] conv \in DOMAIN AnyOf -> 25 [] conv = "path" -> 90 [] OTHER -> 50

(* Converter.match of one segment; path takes the rest of the path, whole. *)
StringMatch(w) == w # ""
IntMatch(w) == w \in Digits
AnyMatch(conv, w) == w \in AnyOf[conv]
AcceptsRest(segs) == segs # <<"">>

Accepts(conv, w) ==
    CASE conv = "int" -> IntMatch(w) [] conv \in DOMAIN AnyOf -> AnyMatch(conv, w)
      [] OTHER -> StringMatch(w)

(* Children are shared on the name and the converter; every any(...) of    *)
(* one name counts as the same converter.                                  *)
KeyOf(seg) == IF seg.conv \in DOMAIN AnyOf THEN [seg EXCEPT !.conv = "any"] ELSE seg

Keys(segs) == [i \in DOMAIN segs |-> KeyOf(segs[i])]

-----------------------------------------------------------------------------
(* The tree.                                                               *)

(* RouteInfo: a name and the template it was registered with.              *)
Info(name, segs, slash) == [name |-> name, segs |-> segs, slash |-> slash]
NoRoute == Info(0, <<>>, FALSE)
NoHandlers == [m \in {} |-> NoRoute]
Node(conv, born) == [conv |-> conv, born |-> born, handlers |-> NoHandlers, order |-> <<>>,
                     trailing |-> FALSE, unslashed |-> FALSE, tolerant |-> FALSE]

EmptyTree == [k \in {<<>>} |-> Node("none", 0)]

(* _insert_path_into_tree: the missing nodes on the way to a template.     *)
insert_path(t, segs) ==
    LET way == {SubSeq(Keys(segs), 1, i) : i \in 1..Len(segs)}
        n == Cardinality(DOMAIN t)
    IN  [k \in DOMAIN t \cup way |->
            IF k \in DOMAIN t THEN t[k] ELSE Node(segs[Len(k)].conv, n + Len(k))]

ChildrenOf(t, k, kind) ==
    {c \in DOMAIN t : Len(c) = Len(k) + 1 /\ SubSeq(c, 1, Len(k)) = k /\ c[Len(c)].kind = kind}

InOrderOfBirth(t, nodes) == SetToSortSeq(nodes, LAMBDA x, y : t[x].born < t[y].born)

(* Competing parameters in the order they were registered.                 *)
ParamsAsRegistered(t, k) == InOrderOfBirth(t, ChildrenOf(t, k, "param"))

(* param_children, most restrictive first, then in order of registration.  *)
ParamChildren(t, k) ==
    SetToSortSeq(ChildrenOf(t, k, "param"),
                 LAMBDA x, y : \/ specificity(t[x].conv) < specificity(t[y].conv)
                               \/ specificity(t[x].conv) = specificity(t[y].conv)
                                  /\ t[x].born < t[y].born)

Miss == [found |-> FALSE, node |-> <<>>, params |-> {}]
Hit(k, params) == [found |-> TRUE, node |-> k, params |-> params]

Bind(params, n, v) == {b \in params : b.name # n} \cup {[name |-> n, value |-> v]}
Unbind(params, n) == {b \in params : b.name # n}

RECURSIVE match_node(_, _, _, _), match_params(_, _, _, _, _, _)

(* The first parameter that takes the segment is never given up again.     *)
FirstBranchOnly(t, k, segs, params, children, single) ==
    IF \A i \in DOMAIN children : Greedy(t[children[i]].conv) \/ ~Accepts(t[children[i]].conv, Head(segs))
    THEN Miss
    ELSE LET i == CHOOSE j \in DOMAIN children :
                    /\ ~Greedy(t[children[j]].conv) /\ Accepts(t[children[j]].conv, Head(segs))
                    /\ \A l \in 1..(j - 1) : ~Accepts(t[children[l]].conv, Head(segs))
         IN  match_node(t, children[i], Tail(segs), params)

(* The parameters of a failed branch are taken back, unless it was the     *)
(* only branch.                                                            *)
match_params(t, k, segs, params, children, single) ==
    IF children = <<>>
    THEN IF Append(k, Star) \in DOMAIN t
         THEN Hit(Append(k, Star), Bind(params, "_wildcard", segs))
         ELSE [Miss EXCEPT !.params = params]
    ELSE LET c == Head(children)
             n == c[Len(c)].name
             others(p) == match_params(t, k, segs, p, Tail(children), single)
         IN  IF Greedy(t[c].conv)
             THEN IF AcceptsRest(segs) /\ t[c].handlers # NoHandlers
                  THEN Hit(c, Bind(params, n, segs)) ELSE others(params)
             ELSE IF ~Accepts(t[c].conv, Head(segs)) THEN others(params)
             ELSE LET bound == Bind(params, n, <<Head(segs)>>)
                      below == match_node(t, c, Tail(segs), bound)
                  IN  IF below.found THEN below
                      ELSE others(IF single THEN below.params ELSE Unbind(below.params, n))

(* A node with handlers answers for whatever follows it.                   *)
PrefixMatch(t, k, segs, params) ==
    IF t[k].handlers # NoHandlers THEN Hit(k, params)
    ELSE IF segs = <<>> THEN [Miss EXCEPT !.params = params]
    ELSE LET s == Append(k, Lit(Head(segs)))
             below == IF s \in DOMAIN t THEN match_node(t, s, Tail(segs), params) ELSE Miss
         IN  IF below.found THEN below
             ELSE match_params(t, k, segs, params, ParamChildren(t, k), FALSE)

(* _match_node: a literal child first, then the parameters, then the       *)
(* wildcard.  A miss leaves what its branches bound in params.             *)
match_node(t, k, segs, params) ==
    IF segs = <<>>
    THEN IF t[k].handlers # NoHandlers THEN Hit(k, params) ELSE [Miss EXCEPT !.params = params]
    ELSE LET s == Append(k, Lit(Head(segs)))
             below == IF s \in DOMAIN t THEN match_node(t, s, Tail(segs), params)
                      ELSE [Miss EXCEPT !.params = params]
             kids == ParamChildren(t, k)
         IN  IF below.found THEN below
             ELSE match_params(t, k, segs, below.params, kids, Len(kids) = 1)

(* _slash_mismatch: `/a` and `/a/` are one node that knows its two forms.  *)
slash_mismatch(node, slash) ==
    /\ ~node.tolerant
    /\ \/ node.trailing /\ ~node.unslashed /\ ~slash
       \/ node.unslashed /\ ~node.trailing /\ slash /\ node.handlers # NoHandlers

(* The handler of a method; HEAD falls back to GET.                        *)
HandlerFor(handlers, method) ==
    IF method \in DOMAIN handlers THEN handlers[method]
    ELSE IF method = "HEAD" /\ "GET" \in DOMAIN handlers THEN handlers["GET"] ELSE NoRoute

NoMatch == [route |-> NoRoute, params |-> {}]

match_tree(t, method, path) ==
    LET hit == match_node(t, <<>>, path.segs, {}) IN
    IF ~hit.found \/ slash_mismatch(t[hit.node], path.slash)
       \/ HandlerFor(t[hit.node].handlers, method) = NoRoute
    THEN NoMatch
    ELSE [route |-> HandlerFor(t[hit.node].handlers, method), params |-> hit.params]

(* A static map that ignores the slash form a node was registered with.    *)
BuildAnySlash(t) ==
    {[segs |-> [i \in DOMAIN k |-> k[i].name], method |-> m, route |-> HandlerFor(t[k].handlers, m)] :
        <<k, m>> \in {x \in {k \in DOMAIN t : \A i \in DOMAIN k : k[i].kind = "static"} \X Methods :
                         HandlerFor(t[x[1]].handlers, x[2]) # NoRoute}}

(* _build_static_routes: the strict literal paths without a final slash,   *)
(* with HEAD for every GET.                                                *)
build_static(t) ==
    LET plain == {k \in DOMAIN t : /\ \A i \in DOMAIN k : k[i].kind = "static"
                                   /\ ~t[k].trailing /\ ~t[k].tolerant}
    IN  {[segs |-> [i \in DOMAIN k |-> k[i].name], method |-> m,
          route |-> HandlerFor(t[k].handlers, m)] :
             <<k, m>> \in {x \in plain \X Methods : HandlerFor(t[x[1]].handlers, x[2]) # NoRoute}}

Stale == {[segs |-> <<>>, method |-> "none", route |-> NoRoute]}

StaticHit(map, method, path) ==
    {e \in map : e.method = method /\ e.segs = path.segs /\ ~path.slash}

(* Router.match, with the static map as it is cached.                      *)
match(t, map, method, path) ==
    LET hits == StaticHit(map, method, path) IN
    IF hits # {} THEN [route |-> (CHOOSE e \in hits : TRUE).route, params |-> {}]
    ELSE match_tree(t, method, path)

get_allowed_methods(t, path) ==
    LET hit == match_node(t, <<>>, path.segs, {}) IN
    IF hit.found /\ ~slash_mismatch(t[hit.node], path.slash) THEN DOMAIN t[hit.node].handlers ELSE {}

(* The other slash form of a path: rstrip("/"), or one slash added.        *)
OtherForm(path) ==
    LET kept == CHOOSE n \in 0..Len(path.segs) :
                   /\ \A i \in (n + 1)..Len(path.segs) : path.segs[i] = ""
                   /\ n = 0 \/ path.segs[n] # ""
    IN  IF path.slash THEN [segs |-> SubSeq(path.segs, 1, kept), slash |-> FALSE]
        ELSE [path EXCEPT !.slash = TRUE]

(* _resolve_route: a match, a redirect to the other form, 405 or 404.      *)
resolve_route(t, map, method, path) ==
    LET here == match(t, map, method, path)
        there == match(t, map, method, OtherForm(path))
    IN  CASE here.route # NoRoute -> [status |-> "found", match |-> here, to |-> path]
          [] here.route = NoRoute /\ path.segs # <<>> /\ there.route # NoRoute ->
                [status |-> "redirect", match |-> there, to |-> OtherForm(path)]
          [] OTHER -> [status |-> IF get_allowed_methods(t, path) # {} THEN "405" ELSE "404",
                       match |-> NoMatch, to |-> path]

-----------------------------------------------------------------------------
(* Registration.                                                           *)

(* _classify_route_path: the node is there, and marked with the slash form *)
(* of the template, before the handlers are committed.                     *)
classify(t, route) ==
    LET k == Keys(route.segs) IN
    [insert_path(t, route.segs) EXCEPT ![k].trailing = @ \/ route.slash,
                                       ![k].unslashed = @ \/ ~route.slash,
                                       ![k].tolerant = @ \/ route.tolerant]

(* _commit_route_methods: every method is checked before any is written.   *)
Clash(t, route) == \E m \in route.methods : m \in DOMAIN t[Keys(route.segs)].handlers

(* A handler table keeps the order its methods were first written in.      *)
commit(t, k, methods, info) ==
    [t EXCEPT ![k].handlers = [m \in DOMAIN @ \cup methods |-> IF m \in methods THEN info ELSE @[m]],
              ![k].order = @ \o SetToSortSeq(methods \ Range(@), LAMBDA x, y : x = "GET")]

(* _name_still_live: a slot other than the one being replaced has a route  *)
(* of that name.                                                           *)
name_still_live(t, name, k, m) ==
    \E k2 \in DOMAIN t : \E m2 \in DOMAIN t[k2].handlers :
        <<k2, m2>> # <<k, m>> /\ t[k2].handlers[m2].name = name

(* _drop_replaced_route_name, for each method a registration replaces,     *)
(* before any of them is written; then the new route takes its name.       *)
named_after(n, t, k, methods, info) ==
    LET replaced == {m \in methods : m \in DOMAIN t[k].handlers}
        old(m) == t[k].handlers[m].name
        dropped == {old(m) : m \in {x \in replaced : old(x) # info.name /\ ~name_still_live(t, old(x), k, x)}}
    IN  [x \in (DOMAIN n \ dropped) \cup {info.name} |-> IF x = info.name THEN info ELSE n[x]]

Init ==
    /\ tree = [r \in Routers |-> EmptyTree]
    /\ named = [r \in Routers |-> [x \in {} |-> 0]]
    /\ literal = Stale
    /\ policy \in Policies
    /\ adds = 0 /\ refused = FALSE

add_route(r, route) ==
    /\ adds < MaxAdds
    /\ LET t == classify(tree[r], route)
           k == Keys(route.segs)
           bad == Clash(t, route) /\ policy = "error"
           info == Info(adds + 1, route.segs, route.slash)
       IN  /\ tree' = [tree EXCEPT ![r] = IF bad THEN t ELSE commit(t, k, route.methods, info)]
           /\ named' = IF bad THEN named
                       ELSE [named EXCEPT ![r] = named_after(@, t, k, route.methods, info)]
           /\ refused' = bad
    /\ literal' = IF r = "app" THEN Stale ELSE literal
    /\ adds' = adds + 1
    /\ UNCHANGED policy

(* _build_merged_route_info: the template is the path of the node under    *)
(* the prefix, which has no final slash.                                   *)
MergedInfo(prefix, from, k, m) ==
    Info(from[k].handlers[m].name,
         prefix \o [i \in DOMAIN k |-> [k[i] EXCEPT !.conv = from[SubSeq(k, 1, i)].conv]], FALSE)

(* _allow_duplicate: the same handler at the same template, merged again.  *)
AllowDuplicate(existing, incoming) == existing = incoming

(* _commit_merged_method: a duplicate stops the merge where it is, unless  *)
(* it is what is there already.                                            *)
CommitMerged(acc, t, k, m, info) ==
    IF policy = "error" /\ m \in DOMAIN t[k].handlers /\ ~AllowDuplicate(t[k].handlers[m], info)
    THEN [acc EXCEPT !.tree = t, !.refused = TRUE]
    ELSE [acc EXCEPT !.tree = commit(t, k, {m}, info), !.named = named_after(@, t, k, {m}, info)]

(* _merge_node: one handler of the included router.                        *)
MergeOne(acc, prefix, from, k, m) ==
    LET info == MergedInfo(prefix, from, k, m)
        at == Keys(info.segs)
        t == [insert_path(acc.tree, info.segs) EXCEPT ![at].trailing = @ \/ from[k].trailing,
                                                      ![at].unslashed = @ \/ from[k].unslashed,
                                                      ![at].tolerant = @ \/ from[k].tolerant]
    IN  IF acc.refused THEN acc ELSE CommitMerged(acc, t, at, m, info)

(* _merge_node goes depth first: the handlers of a node, then the literal  *)
(* children, the parameters and the wildcard below it.                     *)
RECURSIVE WalkFrom(_, _)
WalkFrom(t, k) ==
    LET below == InOrderOfBirth(t, ChildrenOf(t, k, "static")) \o ParamChildren(t, k)
                 \o InOrderOfBirth(t, ChildrenOf(t, k, "star"))
    IN  [i \in DOMAIN t[k].order |-> <<k, t[k].order[i]>>]
        \o FlattenSeq([i \in DOMAIN below |-> WalkFrom(t, below[i])])

WalkOrder(t) == WalkFrom(t, <<>>)

include_router(prefix) ==
    /\ adds < MaxAdds /\ WalkOrder(tree["sub"]) # <<>>
    /\ LET done == FoldLeft(LAMBDA acc, x : MergeOne(acc, prefix, tree["sub"], x[1], x[2]),
                            [tree |-> tree["app"], named |-> named["app"], refused |-> FALSE],
                            WalkOrder(tree["sub"]))
       IN  /\ tree' = [tree EXCEPT !["app"] = done.tree]
           /\ named' = [named EXCEPT !["app"] = done.named]
           /\ refused' = done.refused
    /\ literal' = Stale
    /\ adds' = adds + 1
    /\ UNCHANGED policy

(* The first match builds the static map.                                  *)
FirstMatch ==
    /\ literal = Stale
    /\ literal' = build_static(tree["app"])
    /\ UNCHANGED <<tree, named, policy, adds, refused>>

Next ==
    \/ \E r \in Routers, route \in Templates : add_route(r, route)
    \/ \E prefix \in {<<>>, <<Lit("a")>>} : include_router(prefix)
    \/ FirstMatch

Spec == Init /\ [][Next]_vars

-----------------------------------------------------------------------------
Paths == {p \in [segs : SeqOf(Words, MaxLen), slash : BOOLEAN] :
             /\ p.segs = <<>> => ~p.slash
             /\ p.segs # <<>> => (p.segs[Len(p.segs)] = "" => p.slash)}

(* What a template covers, told from the template alone.                   *)
RECURSIVE Covers(_, _)
Covers(segs, words) ==
    IF segs = <<>> THEN words = <<>>
    ELSE LET s == Head(segs) IN
         /\ words # <<>>
         /\ CASE s.kind = "star" -> TRUE
              [] Greedy(s.conv) -> AcceptsRest(words)
              [] s.kind = "static" -> s.name = Head(words) /\ Covers(Tail(segs), Tail(words))
              [] OTHER -> Accepts(s.conv, Head(words)) /\ Covers(Tail(segs), Tail(words))

(* The router matches with the map it built at the first match after the   *)
(* last registration.                                                      *)
Serving == literal # Stale

(* A request is only ever given to a route whose template covers its path, *)
(* whatever else is registered on the way (_insert_path_into_tree shares   *)
(* nodes between routes).                                                  *)
MatchIsCovered ==
    Serving => \A p \in Paths, m \in Methods :
        LET hit == match(tree["app"], literal, m, p) IN
        hit.route # NoRoute => Covers(hit.route.segs, p.segs)

(* A path that the template of some name covers is never answered with     *)
(* 404: backtracking misses no branch, and the wrong slash form or method  *)
(* gets a redirect or a 405.                                               *)
CoveredIsFound ==
    Serving => \A p \in Paths :
        (\E name \in DOMAIN named["app"] : Covers(named["app"][name].segs, p.segs))
        => \E m \in Methods : resolve_route(tree["app"], literal, m, p).status # "404"

(* url_for: the text of a typed value is checked with its converter, and   *)
(* may hold a slash only where the converter takes the rest of the path.   *)
(* What is left of the template stays, the star of a wildcard too.  A text *)
(* is its words between slashes; quoting is undone before a match.         *)
Refuses(s, text) ==
    s.kind = "param" /\ IF Greedy(s.conv) THEN ~AcceptsRest(text)
                        ELSE Len(text) # 1 \/ ~Accepts(s.conv, text[1])

url_for(route, values) ==
    [segs |-> FlattenSeq([i \in DOMAIN route.segs |->
                  CASE route.segs[i].kind = "static" -> <<route.segs[i].name>>
                    [] route.segs[i].kind = "param" -> values[route.segs[i].name]
                    [] OTHER -> <<"*">>]),
     slash |-> route.slash]

NamesOf(route) == {s.name : s \in {x \in Range(route.segs) : x.kind = "param"}}

(* The node k is tried before the node l: they part at some segment, where *)
(* the way to k is a literal, a stricter converter, or one as strict that  *)
(* was registered earlier.                                                 *)
Strictness(t, k) ==
    CASE k[Len(k)].kind = "static" -> 0 [] k[Len(k)].kind = "param" -> specificity(t[k].conv)
      [] OTHER -> 100

TriedBefore(t, k, l) ==
    \E i \in 1..Len(k) :
        LET there == SubSeq(k, 1, i)
            here == SubSeq(l, 1, i)
        IN  /\ i <= Len(l) /\ there # here /\ Front(there) = Front(here)
            /\ \/ Strictness(t, there) < Strictness(t, here)
               \/ Strictness(t, there) = Strictness(t, here) /\ t[there].born < t[here].born

(* Whatever url_for gives for a name that is registered and values it does *)
(* not refuse comes back to that route, at once or by one redirect of its  *)
(* slash, with the values it was built from; or it stops at a node that is *)
(* more specific than the route's own, which has a say first.  Where       *)
(* another registration took the handlers of the route itself              *)
(* (NamesAreLive), it still stops there, and is no 404.                    *)
UrlsResolve ==
    Serving => \A name \in DOMAIN named["app"] :
        LET t == tree["app"]
            route == named["app"][name]
            own == Keys(route.segs)
        IN
        \A values \in [NamesOf(route) -> SeqOf(Words, 2) \ {<<>>}] :
            (\A i \in DOMAIN route.segs : route.segs[i].kind = "param"
                                          => ~Refuses(route.segs[i], values[route.segs[i].name]))
            => LET url == url_for(route, values)
                   hit == match_node(t, <<>>, url.segs, {})
                   answer(m) == resolve_route(t, literal, m, url)
               IN  /\ hit.found
                   /\ \E m \in Methods : answer(m).status # "404"
                   /\ hit.node = own \/ TriedBefore(t, hit.node, own)
                   /\ hit.node = own =>
                      \A m \in DOMAIN t[own].handlers : t[own].handlers[m].name = name =>
                          /\ answer(m).status \in {"found", "redirect"}
                          /\ answer(m).match.route.name = name
                          /\ \A n \in NamesOf(route) :
                                 [name |-> n, value |-> values[n]] \in answer(m).match.params

(* Where the cached static map answers, it says what the tree would say,   *)
(* after any sequence of registrations, inclusions and matches.            *)
StaticMapAgrees ==
    Serving => \A p \in Paths, m \in Methods :
        StaticHit(literal, m, p) # {} =>
        match(tree["app"], literal, m, p) = match_tree(tree["app"], m, p)

(* router.py _commit_route_methods: a refused registration "leaves the     *)
(* router fully unchanged": it does not change what any path is answered   *)
(* with.  The slash form of the refused template is already marked, so the *)
(* code does not keep this.                                                *)
RefusedChangesNothing ==
    [][refused' /\ ~refused => \A p \in Paths, m \in Methods :
          match_tree(tree'["app"], m, p) = match_tree(tree["app"], m, p)]_vars

(* router.py _drop_replaced_route_name: no name is left that would "let    *)
(* url_for(old_name) resolve to a route no longer in the handler table".   *)
(* A registration that replaces two methods of one route leaves its name.  *)
NamesAreLive ==
    \A name \in DOMAIN named["app"] :
        \E k \in DOMAIN tree["app"] : \E m \in DOMAIN tree["app"][k].handlers :
            tree["app"][k].handlers[m].name = name

(* path_params holds exactly the parameters of the route that matched.     *)
(* The code keeps those of a failed branch that had no sibling.            *)
ParamsAreTheRoutes ==
    Serving => \A p \in Paths, m \in Methods :
        LET hit == match(tree["app"], literal, m, p) IN
        hit.route # NoRoute => {b.name : b \in hit.params}
                         = {s.name : s \in {x \in Range(hit.route.segs) : x.kind # "static"}}
=============================================================================
