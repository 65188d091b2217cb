----------------------------- MODULE Injection -----------------------------
(***************************************************************************)
(* Dependency injection (dependency.py, _handler_plan.py,                  *)
(* _resolver_codegen.py): the graph of Depends() and Security() behind a   *)
(* handler, resolved once per request with a result cache, a stack of      *)
(* scopes and a list of teardowns that every dependency shares.            *)
(* Dependencies that share nothing run concurrently, in waves; a graph     *)
(* without waves may be run by generated code instead.                     *)
(* An activation, one _exec_depends in progress, is named by the path of   *)
(* slots that leads to it from the handler, <<>>.  Activations interleave  *)
(* at every step, the suspension points of the event loop among them.      *)
(***************************************************************************)
EXTENDS Integers, Sequences, FiniteSets, SequencesExt

CONSTANTS Graphs,    \* [subs, kind, reads, route, over]: the dependency graphs
          Handler    \* the callable at the root of every graph

VARIABLES graph, caller,  \* the graph resolved, and who asked: HTTP or an MCP tool call
          act,            \* path -> [pc, step, by, key] of an activation
          stack,          \* _scope_stack
          cache,          \* _cache: key -> the activation that ran, and the scopes it saw
          teardowns,      \* _teardowns: yield dependencies to resume
          torn,           \* those resumed
          trace,          \* the calls made, in order
          seen,           \* scopes handed to a dependency that reads them
          phase           \* "resolve", "handle", "teardown", "over"

vars == <<graph, caller, act, stack, cache, teardowns, torn, trace, seen, phase>>

-----------------------------------------------------------------------------
(* The plan.                                                               *)

(* Depends(dependency, use_cache) and Security(dependency, scopes).        *)
Slot(dep, use_cache, scopes) == [dep |-> dep, cache |-> use_cache, scopes |-> scopes]

RECURSIVE reads_scopes(_, _), cached_callables(_, _), parallel_safe(_, _)

(* _subgraph_reads_scopes: what a dependency returns hangs on its scopes.  *)
reads_scopes(g, dep) ==
    dep \in g.reads \/ \E i \in DOMAIN g.subs[dep] : reads_scopes(g, g.subs[dep][i].dep)

(* _slot_parallel_safe: nothing below pushes scopes or has a teardown.     *)
SafeOnTop(g, slot) == slot.scopes = <<>> /\ g.kind[slot.dep] # "gen"

parallel_safe(g, slot) ==
    /\ slot.scopes = <<>> /\ g.kind[slot.dep] # "gen"
    /\ \A i \in DOMAIN g.subs[slot.dep] : parallel_safe(g, g.subs[slot.dep][i])

(* _cached_callables: every cached callable at or below a slot.            *)
CachedOnTop(g, slot) == IF slot.cache THEN {slot.dep} ELSE {}

cached_callables(g, slot) ==
    (IF slot.cache THEN {slot.dep} ELSE {})
    \cup UNION {cached_callables(g, g.subs[slot.dep][i]) : i \in DOMAIN g.subs[slot.dep]}

(* compute_dep_waves: each safe slot joins the first wave it shares no     *)
(* cached callable with.                                                   *)
Place(g, slots, waves, i) ==
    LET own == cached_callables(g, slots[i])
        free == {w \in DOMAIN waves : waves[w].taken \cap own = {}}
        first == CHOOSE w \in free : \A v \in free : w <= v
    IN  IF free = {} THEN Append(waves, [members |-> {i}, taken |-> own])
        ELSE [waves EXCEPT ![first] = [members |-> @.members \cup {i}, taken |-> @.taken \cup own]]

compute_dep_waves(g, slots) ==
    FoldLeft(LAMBDA waves, i : IF parallel_safe(g, slots[i]) THEN Place(g, slots, waves, i) ELSE waves,
             <<>>, [i \in DOMAIN slots |-> i])

(* HandlerPlan: waves of one are dropped; the others run, one after the    *)
(* other, where the first of their members stands.                         *)
batched_waves(g, slots) ==
    SelectSeq([w \in DOMAIN compute_dep_waves(g, slots) |-> compute_dep_waves(g, slots)[w].members],
              LAMBDA members : Cardinality(members) > 1)

wave_members(g, slots) == UNION Range(batched_waves(g, slots))

(* The groups of slots a plan resolves, in order.                          *)
Steps(g, slots) ==
    LET inWave == wave_members(g, slots)
        at(i) == IF i \notin inWave THEN << {i} >>
                 ELSE IF \A j \in inWave : i <= j THEN batched_waves(g, slots) ELSE <<>>
    IN  FlattenSeq([i \in DOMAIN slots |-> at(i)])

(* build_route_dep_plans: dependencies of the route come first, one by     *)
(* one; bind_arguments of an MCP call runs the handler's own that way too. *)
RootSlots(g) == g.route \o g.subs[Handler]

RootSteps(g, who) ==
    LET n == Len(g.route)
        own == IF who = "mcp" THEN [i \in DOMAIN g.subs[Handler] |-> {i}] ELSE Steps(g, g.subs[Handler])
    IN  [i \in 1..n |-> {i}] \o [s \in DOMAIN own |-> {i + n : i \in own[s]}]

-----------------------------------------------------------------------------
(* Activations.                                                            *)

RECURSIVE SlotAt(_, _), DepAt(_, _)

SlotsOf(g, p) == IF p = <<>> THEN RootSlots(g) ELSE g.subs[DepAt(g, p)]
SlotAt(g, p) == SlotsOf(g, Front(p))[Last(p)]
DepAt(g, p) == IF p = <<>> THEN Handler ELSE g.over[SlotAt(g, p).dep]

StepsOf(p) == IF p = <<>> THEN RootSteps(graph, caller) ELSE Steps(graph, graph.subs[DepAt(graph, p)])

(* Scopes required on the way to an activation, its own included.          *)
PathScopes(p) == UNION {Range(SlotAt(graph, SubSeq(p, 1, i)).scopes) : i \in 1..Len(p)}

(* The key of the result cache.                                            *)
KeyWithoutScopes(p, scopes) == [dep |-> DepAt(graph, p), scopes |-> {}]

cache_key(p, scopes) ==
    [dep |-> DepAt(graph, p),
     scopes |-> IF reads_scopes(graph, SlotAt(graph, p).dep)
                THEN Range(scopes) \cup Range(SlotAt(graph, p).scopes) ELSE {}]

Live(p) == act[p].pc \in {"enter", "slots", "wait", "call"}
Children(p) == {Append(p, i) : i \in StepsOf(p)[act[p].step]}

NoKey == [dep |-> Handler, scopes |-> {}]
At(pc) == [pc |-> pc, step |-> 1, by |-> <<>>, key |-> NoKey]

Init ==
    /\ graph \in Graphs
    /\ caller \in {"http", "mcp"}
    /\ act = [p \in {<<>>} |-> At("slots")]
    /\ stack = <<>> /\ cache = [k \in {} |-> 0]
    /\ teardowns = <<>> /\ torn = <<>> /\ trace = <<>> /\ seen = {}
    /\ phase = "resolve"

(* _resolve_slots and _run_dep_waves start the next group of slots.        *)
Launch(p) ==
    /\ act[p].pc = "slots" /\ act[p].step <= Len(StepsOf(p))
    /\ act' = [q \in DOMAIN act \cup Children(p) |->
                  IF q = p THEN [act[p] EXCEPT !.pc = "wait"]
                  ELSE IF q \in Children(p) THEN At("enter") ELSE act[q]]
    /\ UNCHANGED <<graph, caller, stack, cache, teardowns, torn, trace, seen, phase>>

(* _exec_depends up to its sub-dependencies: a cached result, or the       *)
(* scopes pushed for what is below.                                        *)
Enter(p) ==
    /\ act[p].pc = "enter"
    /\ LET key == cache_key(p, stack)
           scopes == SlotAt(graph, p).scopes
           hit == SlotAt(graph, p).cache /\ key \in DOMAIN cache
           dep == DepAt(graph, p)
       IN  /\ act' = [act EXCEPT ![p] = IF hit THEN [@ EXCEPT !.pc = "done", !.by = cache[key].by]
                                        ELSE [@ EXCEPT !.pc = "slots", !.key = key]]
           /\ stack' = IF hit THEN stack ELSE stack \o scopes
           /\ seen' = IF hit
                      THEN IF reads_scopes(graph, dep) THEN seen \cup {[path |-> p, saw |-> cache[key].saw]} ELSE seen
                      ELSE IF dep \in graph.reads
                           THEN seen \cup {[path |-> p, saw |-> Range(stack \o scopes)]} ELSE seen
    /\ UNCHANGED <<graph, caller, cache, teardowns, torn, trace, phase>>

(* All of a group have answered.                                           *)
Collect(p) ==
    /\ act[p].pc = "wait" /\ \A c \in Children(p) : act[c].pc = "done"
    /\ act' = [act EXCEPT ![p].pc = "slots", ![p].step = @ + 1]
    /\ UNCHANGED <<graph, caller, stack, cache, teardowns, torn, trace, seen, phase>>

(* The finally of _exec_depends takes as many scopes off as it pushed.     *)
Popped(p) == SubSeq(stack, 1, Len(stack) - Len(SlotAt(graph, p).scopes))

(* The first failure of a group fails whoever waits for it; the others of  *)
(* a gathered wave are left to run.                                        *)
ChildFails(p) ==
    /\ act[p].pc = "wait" /\ \E c \in Children(p) : act[c].pc = "failed"
    /\ act' = [act EXCEPT ![p].pc = "failed"]
    /\ stack' = IF p = <<>> THEN stack ELSE Popped(p)
    /\ phase' = IF p = <<>> THEN (IF caller = "mcp" THEN "teardown" ELSE "over") ELSE phase
    /\ UNCHANGED <<graph, caller, cache, teardowns, torn, trace, seen>>

(* Its arguments complete, the dependency itself is called.                *)
Call(p) ==
    /\ p # <<>> /\ act[p].pc = "slots" /\ act[p].step > Len(StepsOf(p))
    /\ stack' = Popped(p)
    /\ act' = [act EXCEPT ![p].pc = "call"]
    /\ trace' = Append(trace, [dep |-> DepAt(graph, p), scopes |-> PathScopes(p),
                               key |-> act[p].key, cached |-> SlotAt(graph, p).cache])
    /\ UNCHANGED <<graph, caller, cache, teardowns, torn, seen, phase>>

Return(p) ==
    /\ act[p].pc = "call"
    /\ act' = [act EXCEPT ![p].pc = "done", ![p].by = p]
    /\ teardowns' = IF graph.kind[DepAt(graph, p)] = "gen" THEN Append(teardowns, p) ELSE teardowns
    /\ cache' = IF SlotAt(graph, p).cache
                THEN [k \in DOMAIN cache \cup {act[p].key} |->
                         IF k = act[p].key THEN [by |-> p, saw |-> PathScopes(p)] ELSE cache[k]]
                ELSE cache
    /\ UNCHANGED <<graph, caller, stack, torn, trace, seen, phase>>

Raise(p) ==
    /\ act[p].pc = "call"
    /\ act' = [act EXCEPT ![p].pc = "failed"]
    /\ UNCHANGED <<graph, caller, stack, cache, teardowns, torn, trace, seen, phase>>

(* resolve_plan, or bind_arguments, is done; the handler runs and ends.    *)
Resolved ==
    /\ phase = "resolve" /\ act[<<>>].pc = "slots" /\ act[<<>>].step > Len(StepsOf(<<>>))
    /\ act' = [act EXCEPT ![<<>>].pc = "done"]
    /\ phase' = "handle"
    /\ UNCHANGED <<graph, caller, stack, cache, teardowns, torn, trace, seen>>

HandlerEnds ==
    /\ phase = "handle"
    /\ phase' = "teardown"
    /\ UNCHANGED <<graph, caller, act, stack, cache, teardowns, torn, trace, seen>>

(* run_teardowns resumes the newest first; one that raises is noted and    *)
(* the rest go on.                                                         *)
OldestFirst ==
    /\ phase = "teardown" /\ teardowns # <<>>
    /\ torn' = Append(torn, Head(teardowns)) /\ teardowns' = Tail(teardowns)
    /\ UNCHANGED <<graph, caller, act, stack, cache, trace, seen, phase>>

Teardown ==
    /\ phase = "teardown" /\ teardowns # <<>>
    /\ torn' = Append(torn, Last(teardowns)) /\ teardowns' = Front(teardowns)
    /\ UNCHANGED <<graph, caller, act, stack, cache, trace, seen, phase>>

TornDown ==
    /\ phase = "teardown" /\ teardowns = <<>>
    /\ phase' = "over"
    /\ UNCHANGED <<graph, caller, act, stack, cache, teardowns, torn, trace, seen>>

Step(p) == Launch(p) \/ Enter(p) \/ Collect(p) \/ ChildFails(p) \/ Call(p) \/ Return(p) \/ Raise(p)

(* A wave that lost a member may go on after the request is over.          *)
Over == phase = "over" /\ (\A p \in DOMAIN act : p # <<>> => act[p].pc \notin {"enter", "call"})

Next == (\E p \in DOMAIN act : Step(p)) \/ Resolved \/ HandlerEnds \/ Teardown \/ TornDown
        \/ (Over /\ UNCHANGED vars)

Spec == Init /\ [][Next]_vars

-----------------------------------------------------------------------------
(* The generated resolver.                                                 *)

RECURSIVE graph_compilable(_, _), emit_dep(_, _, _, _, _)

(* _graph_compilable: every slot is cached and nothing below has a wave.   *)
graph_compilable(g, dep) ==
    /\ wave_members(g, g.subs[dep]) = {}
    /\ \A i \in DOMAIN g.subs[dep] : g.subs[dep][i].cache /\ graph_compilable(g, g.subs[dep][i].dep)

(* resolve_plan: no route dependencies, no overrides, no MCP context.      *)
Compiled(g) == g.route = <<>> /\ (\A d \in DOMAIN g.over : g.over[d] = d) /\ graph_compilable(g, Handler)

(* A key that forgets the scopes, as an untyped cache of variables would.  *)
EmitByName(g, slot, scopes, vars_, code) ==
    LET key == [dep |-> slot.dep, scopes |-> {}]
        inner == scopes \o slot.scopes
        below == FoldLeft(LAMBDA acc, s : emit_dep(g, s, inner, acc[1], acc[2]),
                          <<vars_, code>>, g.subs[slot.dep])
    IN  IF key \in vars_ THEN <<vars_, code>>
        ELSE <<below[1] \cup {key}, Append(below[2], [dep |-> slot.dep, scopes |-> Range(inner)])>>

(* _emit_dep: one local variable per key; a slot that finds its key among  *)
(* those emitted reads the variable.                                       *)
emit_dep(g, slot, scopes, vars_, code) ==
    LET inner == scopes \o slot.scopes
        key == [dep |-> slot.dep, scopes |-> IF reads_scopes(g, slot.dep) THEN Range(inner) ELSE {}]
        below == FoldLeft(LAMBDA acc, s : emit_dep(g, s, inner, acc[1], acc[2]),
                          <<vars_, code>>, g.subs[slot.dep])
    IN  IF key \in vars_ THEN <<vars_, code>>
        ELSE <<below[1] \cup {key}, Append(below[2], [dep |-> slot.dep, scopes |-> Range(inner)])>>

compile_graph_resolver(g) ==
    FoldLeft(LAMBDA acc, s : emit_dep(g, s, <<>>, acc[1], acc[2]), << {}, <<>> >>, g.subs[Handler])[2]

-----------------------------------------------------------------------------
(* docs/guide/dependency-injection.md, "Sub-dependencies and caching": a   *)
(* dependency that is cached is called once per request, whichever slots   *)
(* ask for it and however their activations interleave.  The waves have to *)
(* keep apart all that share one (compute_dep_waves).                      *)
CachedRunsOnce ==
    \A i, j \in DOMAIN trace :
        trace[i].cached /\ trace[j].cached /\ trace[i].key = trace[j].key => i = j

(* A dependency that reads SecurityScopes, directly or below, gets the     *)
(* scopes on its own way from the handler: the stack it shares with the    *)
(* others of a wave, and a result another use of it left in the cache,     *)
(* never show it someone else's.                                           *)
OwnScopes == \A s \in seen : s.saw = PathScopes(s.path)

(* A yield dependency is resumed after everything that used its value: no  *)
(* other yield dependency that took it as an argument is still to be       *)
(* resumed, and no activation that did is still running.                   *)
Uses(p, q) == \E c \in DOMAIN act : Len(c) > Len(p) /\ SubSeq(c, 1, Len(p)) = p /\ act[c].by = q

ProvidersOutlive ==
    \A q \in Range(torn) :
        /\ \A p \in Range(teardowns) : ~Uses(p, q)
        /\ \A p \in DOMAIN act : Live(p) => ~Uses(p, q)

(* The generated resolver makes the calls the interpreter makes, in the    *)
(* same order and under the same scopes, on every graph it is used for.    *)
CompiledAgrees ==
    Compiled(graph) /\ act[<<>>].pc = "done" =>
        [i \in DOMAIN trace |-> [dep |-> trace[i].dep, scopes |-> trace[i].scopes]]
            = compile_graph_resolver(graph)

(* Nothing of a request runs on after it is over.  The code does not keep  *)
(* this: asyncio.gather leaves the other members of a wave running.        *)
NoStragglers == phase = "over" => \A p \in DOMAIN act : ~Live(p)
=============================================================================
