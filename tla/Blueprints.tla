----------------------------- MODULE Blueprints -----------------------------
(***************************************************************************)
(* Blueprints (blueprints.py, app/core.py register_blueprint,              *)
(* app/errors.py): hooks and error handlers are declared on a blueprint,   *)
(* blueprints are nested in one another and registered on the app, and a   *)
(* request to a route runs the hooks, or is answered by the handler, filed *)
(* under the dotted name of the route's blueprint.  A route is a path, the *)
(* names it is filed under and, for the properties only, the blueprints it *)
(* really came through with what they had when it was taken.  The hooks    *)
(* stand for all five categories, which are merged alike.                  *)
(***************************************************************************)
EXTENDS Integers, Sequences, FiniteSets, SequencesExt

CONSTANTS Blueprints,  \* the blueprint objects
          NameOf,      \* NameOf[b]: its name, a string
          Kinds,       \* what is declared: "hooks", "handlers" or either
          MaxOps       \* bound on the calls

VARIABLES own,       \* own[b]: hooks declared on b, in order
          errs,      \* errs[b]: the kinds of error b has a handler for
          scoped,    \* scoped[b]: dotted suffix -> hooks of nested blueprints
          scopedErrs, \* scopedErrs[b]: dotted suffix -> handler table
          routes,    \* routes[b]: the routes of b, without its own prefix
          byName,    \* _blueprints_map of the app
          bpHooks,   \* the app's hooks: dotted name -> hooks
          bpErrs,    \* the app's scoped handler tables
          appErrs,   \* the kinds of error the app itself has a handler for
          mounted,   \* the routes of the app
          tidy,      \* no call raised, and no blueprint was merged twice
          kind, ops

declared == <<own, errs, appErrs>>
nested == <<scoped, scopedErrs, routes>>
app == <<byName, bpHooks, bpErrs, mounted>>
vars == <<declared, nested, app, tidy, kind, ops>>

Empty == [x \in {} |-> 0]
Put(f, x, v) == [y \in DOMAIN f \cup {x} |-> IF y = x THEN v ELSE f[y]]
At(f, x, default) == IF x \in DOMAIN f THEN f[x] ELSE default

(* A handler table: the kind of error -> the blueprint whose handler it is. *)
Table(b) == [k \in errs[b] |-> b]
Updated(table, more) ==
    [k \in DOMAIN table \cup DOMAIN more |-> IF k \in DOMAIN more THEN more[k] ELSE table[k]]

OwnRoute(b) == [path |-> <<>>, names |-> <<>>, line |-> <<>>]

Init ==
    /\ own = [b \in Blueprints |-> <<>>] /\ errs = [b \in Blueprints |-> {}]
    /\ scoped = [b \in Blueprints |-> Empty] /\ scopedErrs = [b \in Blueprints |-> Empty]
    /\ routes = [b \in Blueprints |-> {OwnRoute(b)}]
    /\ byName = Empty /\ bpHooks = Empty /\ bpErrs = Empty /\ mounted = {} /\ appErrs = {}
    /\ tidy = TRUE /\ kind \in Kinds /\ ops = 0

Count == ops < MaxOps /\ ops' = ops + 1 /\ UNCHANGED kind

before_request(b) ==
    /\ Count /\ kind = "hooks"
    /\ own' = [own EXCEPT ![b] = Append(@, <<b, Len(@) + 1>>)]
    /\ UNCHANGED <<errs, appErrs, nested, app, tidy>>

errorhandler(b, k) ==
    /\ Count /\ kind = "handlers"
    /\ errs' = [errs EXCEPT ![b] = @ \cup {k}]
    /\ UNCHANGED <<own, appErrs, nested, app, tidy>>

register_error_handler(k) ==
    /\ Count /\ kind = "handlers"
    /\ appErrs' = appErrs \cup {k}
    /\ UNCHANGED <<own, errs, nested, app, tidy>>

-----------------------------------------------------------------------------
(* _walk_routes and _readd_route: the routes of a blueprint under another  *)
(* prefix and its name.                                                    *)
Taken(b, prefix) ==
    {[path |-> prefix \o r.path, names |-> <<NameOf[b]>> \o r.names,
      line |-> <<[bp |-> b, hooks |-> own[b], errs |-> errs[b]]>> \o r.line] : r \in routes[b]}

(* _allow_duplicate: one handler under one name at one path, merged again. *)
SameRoute(r, o) ==
    o.path = r.path /\ o.names = r.names /\ Last(o.line).bp = Last(r.line).bp

(* A path taken by another route raises; what came before it stays.        *)
Clashes(new, old) == {r \in new : \E o \in old : o.path = r.path /\ ~SameRoute(r, o)}

(* _commit_route_methods: a route that is there already is written again.  *)
Placed(old, new) == {o \in old : \A r \in new : r.path # o.path} \cup new

(* A prefix is the blueprint's own or given in the call.                   *)
PrefixesOf(b) == {<<NameOf[b]>>, <<"other">>}

(* _merge_scoped_lists: the child's own hooks replace what its name had.   *)
merge_scoped_lists(dst, c) ==
    LET under == {<<NameOf[c]>> \o s : s \in DOMAIN scoped[c]} IN
    [s \in DOMAIN dst \cup under \cup {<<NameOf[c]>>} |->
        IF s = <<NameOf[c]>> THEN own[c]
        ELSE IF s \in under THEN scoped[c][Tail(s)] ELSE dst[s]]

(* _merge_scoped: a child without handlers of its own leaves what was there. *)
merge_scoped(dst, c) ==
    LET under == {<<NameOf[c]>> \o s : s \in DOMAIN scopedErrs[c]}
        self == IF errs[c] = {} THEN {} ELSE {<<NameOf[c]>>} IN
    [s \in DOMAIN dst \cup under \cup self |->
        IF s \in self THEN Table(c) ELSE IF s \in under THEN scopedErrs[c][Tail(s)] ELSE dst[s]]

(* Blueprint.register_blueprint: routes first, then hooks and handlers.    *)
nest(p, c) ==
    /\ Count /\ p # c
    /\ \E prefix \in PrefixesOf(c) :
         LET new == Taken(c, prefix) bad == Clashes(new, routes[p]) IN
         IF bad = {}
         THEN /\ routes' = [routes EXCEPT ![p] = Placed(@, new)]
              /\ scoped' = [scoped EXCEPT ![p] = merge_scoped_lists(@, c)]
              /\ scopedErrs' = [scopedErrs EXCEPT ![p] = merge_scoped(@, c)]
              /\ tidy' = (tidy /\ <<NameOf[c]>> \notin DOMAIN scoped[p])
         ELSE /\ \E kept \in SUBSET (new \ bad) : routes' = [routes EXCEPT ![p] = Placed(@, kept)]
              /\ tidy' = FALSE
              /\ UNCHANGED <<scoped, scopedErrs>>
    /\ UNCHANGED <<declared, app>>

(* _resolve_scoped_chain: outermost first.                                 *)
resolve_scoped_chain(b, suffix) ==
    FoldLeft(LAMBDA chain, i : chain \o At(scoped[b], SubSeq(suffix, 1, i), <<>>),
             own[b], [i \in 1..Len(suffix) |-> i])

Extended(hooks, b) ==
    LET name == <<NameOf[b]>>
        chains == {name \o s : s \in DOMAIN scoped[b]} IN
    [x \in DOMAIN hooks \cup chains \cup {name} |->
        At(hooks, x, <<>>) \o (IF x = name THEN own[b]
                               ELSE IF x \in chains THEN resolve_scoped_chain(b, Tail(x)) ELSE <<>>)]

HooksEveryTime(b) == Extended(bpHooks, b)

(* The hooks of a blueprint that is registered again are in place already; *)
(* its error tables are updated all the same.                              *)
app_hooks(b) == IF NameOf[b] \in DOMAIN byName THEN bpHooks ELSE Extended(bpHooks, b)

app_errs(b) ==
    LET name == <<NameOf[b]>>
        under == {name \o s : s \in DOMAIN scopedErrs[b]} IN
    [x \in DOMAIN bpErrs \cup under \cup {name} |->
        Updated(At(bpErrs, x, Empty),
                IF x = name THEN Table(b) ELSE IF x \in under THEN scopedErrs[b][Tail(x)] ELSE Empty)]

(* Veloce.register_blueprint: another blueprint of the name is refused;    *)
(* the name is taken before the routes are, which may raise.               *)
register_blueprint(b) ==
    /\ Count
    /\ At(byName, NameOf[b], b) = b
    /\ byName' = Put(byName, NameOf[b], b)
    /\ \E prefix \in PrefixesOf(b) :
         LET new == Taken(b, prefix) bad == Clashes(new, mounted) IN
         IF bad = {}
         THEN /\ mounted' = Placed(mounted, new)
              /\ bpHooks' = app_hooks(b) /\ bpErrs' = app_errs(b)
              /\ tidy' = (tidy /\ NameOf[b] \notin DOMAIN byName)
         ELSE /\ \E kept \in SUBSET (new \ bad) : mounted' = Placed(mounted, kept)
              /\ tidy' = FALSE
              /\ UNCHANGED <<bpHooks, bpErrs>>
    /\ UNCHANGED <<declared, nested>>

Next ==
    \/ \E b \in Blueprints : before_request(b) \/ register_blueprint(b)
    \/ \E b \in Blueprints, k \in {"status", "class"} : errorhandler(b, k)
    \/ \E k \in {"status", "class"} : register_error_handler(k)
    \/ \E p, c \in Blueprints : nest(p, c)

Spec == Init /\ [][Next]_vars

-----------------------------------------------------------------------------
(* A request: _run_before_hooks looks the hooks up under one dotted name.  *)
HooksFor(r) == At(bpHooks, r.names, <<>>)

(* request.blueprints: the names a route is under, innermost first.        *)
Scopes(r) == [i \in 1..Len(r.names) |-> SubSeq(r.names, 1, Len(r.names) + 1 - i)]
ScopesOutward(r) == Reverse(Scopes(r))

FindOutermost(r, k) ==
    LET has == {i \in DOMAIN r.names : k \in DOMAIN At(bpErrs, ScopesOutward(r)[i], Empty)} IN
    IF has # {} THEN <<"bp", bpErrs[ScopesOutward(r)[CHOOSE i \in has : \A j \in has : i <= j]][k]>>
    ELSE IF k \in appErrs THEN <<"app">> ELSE <<"none">>

(* _find_scoped_status_handler, _find_scoped_exception_handler: the first  *)
(* scope with a handler, then the app.                                     *)
find_scoped(r, k) ==
    LET has == {i \in DOMAIN r.names : k \in DOMAIN At(bpErrs, Scopes(r)[i], Empty)} IN
    IF has # {} THEN <<"bp", bpErrs[Scopes(r)[CHOOSE i \in has : \A j \in has : i <= j]][k]>>
    ELSE IF k \in appErrs THEN <<"app">> ELSE <<"none">>

(* handle_http_exception: by status everywhere, then by class.             *)
handle_http_exception(r) ==
    IF find_scoped(r, "status") # <<"none">> THEN find_scoped(r, "status") ELSE find_scoped(r, "class")

Due(r) == FoldLeft(LAMBDA all, x : all \o x.hooks, <<>>, r.line)

(* blueprints.md "Nested blueprints": what is registered on a blueprint    *)
(* applies to its own routes and its descendants', "never to a sibling's": *)
(* the hooks of a route are of the blueprints it came through, each once,  *)
(* outermost first.  (A blueprint nested in its own descendant runs its    *)
(* hooks for each level it is at.)                                         *)
OnlyItsOwnHooks ==
    \A r \in mounted : IsInjective([i \in DOMAIN r.line |-> r.line[i].bp]) =>
        /\ \A i, j \in DOMAIN HooksFor(r) : i # j => HooksFor(r)[i] # HooksFor(r)[j]
        /\ \A i \in DOMAIN HooksFor(r) : \E l \in DOMAIN r.line :
              /\ r.line[l].bp = HooksFor(r)[i][1]
              /\ \A j \in 1..(i - 1) : \E k \in 1..l : r.line[k].bp = HooksFor(r)[j][1]

(* The same section: everything registered on a blueprint applies to its   *)
(* routes and to its descendants' (the before_request guard in particular).*)
(* Nesting in or registering a blueprint a second time, or a call that     *)
(* raised half way, leaves routes without.                                 *)
HooksFollowRoutes == \A r \in mounted : \A h \in Range(Due(r)) : h \in Range(HooksFor(r))

(* Where nothing raised and nothing was merged twice it does, in order,    *)
(* and an error that is not an HTTPException goes to the handler of the    *)
(* nearest blueprint that has one, then to the app's.                      *)
TidyScopesApply ==
    tidy => \A r \in mounted :
        /\ HooksFor(r) = Due(r)
        /\ LET has == {i \in DOMAIN r.line : "class" \in r.line[i].errs} IN
           IF has = {} THEN find_scoped(r, "class") \in {<<"app">>, <<"none">>}
           ELSE find_scoped(r, "class") = <<"bp", r.line[CHOOSE i \in has : \A j \in has : j <= i].bp>>

(* blueprints.md "Scoped error handlers": app-level handlers "act as the   *)
(* fallback when no blueprint handler matches".  An app handler for the    *)
(* status of an HTTPException goes before a blueprint's for its class.     *)
AppHandlersAreFallback ==
    \A r \in mounted :
        handle_http_exception(r) = <<"app">> => find_scoped(r, "class") \in {<<"app">>, <<"none">>}
=============================================================================
