---------------------------- MODULE McpCatalogue ----------------------------
(***************************************************************************)
(* What an MCP server offers and to whom (contrib/mcp/server.py,           *)
(* registry.py, pagination.py, toolsearch.py, transform.py): the versions  *)
(* of a tool, the listing a caller sees, its pages, the search that stands *)
(* in for it, plans of several calls, derived tools, and the outcome of a  *)
(* message and of a call.  Every operator is a function of its arguments.  *)
(***************************************************************************)
EXTENDS Integers, Sequences, FiniteSets, SequencesExt

-----------------------------------------------------------------------------
(* ToolRegistry: the registrations under one name.  A version has a number *)
(* (0: its stem is not numeric) and perhaps a suffix.                      *)
Version == [number : 0 .. 2, suffix : 0 .. 1]
Unversioned == [number |-> 0, suffix |-> 9]
Nobody == [by |-> 0, version |-> Unversioned]
NoTools == [tool |-> Nobody, siblings |-> {}, refused |-> FALSE]

(* _version_key: a suffixed version sits below its release.                *)
version_key(v) == 10 * v.number + IF v.suffix = 0 /\ v.number > 0 THEN 9 ELSE v.suffix

(* add.  A refusal ends the registration of the application.               *)
Highest(siblings) == CHOOSE r \in siblings : \A s \in siblings : version_key(s.version) <= version_key(r.version)
Newest(siblings) == CHOOSE r \in siblings : \A s \in siblings : s.by <= r.by

AddNewest(reg, r) ==
    LET siblings == (IF reg.siblings = {} THEN {reg.tool} ELSE reg.siblings) \cup {r}
    IN  IF reg.tool = Nobody THEN [reg EXCEPT !.tool = r]
        ELSE [reg EXCEPT !.siblings = siblings, !.tool = Newest(siblings)]

add_tool(reg, r) ==
    LET known == IF reg.siblings = {} THEN {reg.tool} ELSE reg.siblings
        siblings == {s \in known : s.version # r.version} \cup {r}
    IN  CASE reg.refused -> reg
          [] ~reg.refused /\ reg.tool = Nobody -> [reg EXCEPT !.tool = r]
          [] ~reg.refused /\ reg.tool # Nobody ->
                IF Unversioned \in {r.version, reg.tool.version} \/ r.version = reg.tool.version
                THEN [reg EXCEPT !.refused = TRUE]
                ELSE [reg EXCEPT !.siblings = siblings, !.tool = Highest(siblings)]

resolve(reg, v) ==
    CASE v = Unversioned -> reg.tool
      [] v # Unversioned /\ reg.siblings = {} -> IF reg.tool.version = v THEN reg.tool ELSE Nobody
      [] OTHER -> IF \E s \in reg.siblings : s.version = v THEN CHOOSE s \in reg.siblings : s.version = v ELSE Nobody

(* The versions of the listing entry.                                      *)
advertised(reg) == {s.version : s \in IF reg.siblings = {} THEN {reg.tool} ELSE reg.siblings}

Registered(adds) ==
    FoldLeftDomain(LAMBDA reg, i : add_tool(reg, [by |-> i, version |-> adds[i]]), NoTools, adds)

VersionCases == UNION {[1 .. n -> Version \cup {Unversioned}] : n \in 1 .. 3}
Distinct(adds) == \A i, j \in DOMAIN adds : adds[i] = adds[j] => i = j

(* registry.py, docs/guide/mcp.md:1231-1233: of versions that are told     *)
(* apart each answers for itself, the highest is the one listed, and what  *)
(* is advertised can be reached.                                           *)
VersionsAreKept(adds) ==
    LET reg == Registered(adds) IN
    Distinct(adds) /\ ~reg.refused =>
        /\ \A i \in DOMAIN adds : adds[i] # Unversioned => resolve(reg, adds[i]).by = i
        /\ \A i \in DOMAIN adds : version_key(adds[i]) <= version_key(resolve(reg, Unversioned).version)
        /\ \A v \in advertised(reg) : resolve(reg, v) # Nobody

(* mcp.md:1295: "Two registrations sharing a name are still refused when   *)
(* they share a version".  Not kept: add compares the version with that of *)
(* the listed tool only, and replaces an earlier sibling.                  *)
DuplicatesAreRefused(adds) == Registered(adds).refused \/ Distinct(adds)

-----------------------------------------------------------------------------
(* Listing and search.  c: who asks.  "search_tools" stands for the three  *)
(* tools of ToolSearch, present when x.search.                             *)
Callers == {"anyone", "staff"}
Ordinary == {"a", "b"}
Meta == "search_tools"
AllTools(x) == Ordinary \cup IF x.search THEN {Meta} ELSE {}

(* _principal_lacks_scopes.                                                *)
lacks_scopes(x, c, t) == t \in x.scoped /\ c # "staff"

(* _unnarrowed_tools: nothing makes this caller's catalogue smaller.       *)
unnarrowed(x, c) == ~x.filtered /\ x.scoped = {} /\ x.hidden[c] = {}

(* _candidate_tools.                                                       *)
candidate_tools(x, c) ==
    IF unnarrowed(x, c) THEN AllTools(x)
    ELSE {t \in AllTools(x) : ~lacks_scopes(x, c, t) /\ t \notin x.hidden[c] /\ (x.filtered => t \in x.shows[c])}

(* _visible_tools, and the shortcut of _handle_tools_list before it, which *)
(* leaves the hidden ones to _listing.                                     *)
visible_tools(x, c) == IF x.search THEN candidate_tools(x, c) \cap {Meta} ELSE candidate_tools(x, c)
tools_list(x, c) ==
    (IF ~x.filtered /\ ~x.search /\ x.scoped = {} THEN AllTools(x) ELSE visible_tools(x, c)) \ x.hidden[c]

(* _search_tools and _describe_tools see what is reachable; search_tools   *)
(* leaves itself out.                                                      *)
WholeCatalogue(x, c) == AllTools(x) \ {Meta}
searched(x, c) == candidate_tools(x, c) \ {Meta}

(* _tools_call, up to the permission.                                      *)
may_call(x, c, t) == t \in AllTools(x) /\ ~lacks_scopes(x, c, t)

(* _varies_by_caller for tools/list: of a persistent session always.       *)
VariesByScope(x) == x.persistent \/ x.scoped # {}
varies_by_caller(x) == x.persistent \/ x.filtered \/ x.scoped # {}

ListingCases ==
    {x \in [scoped : SUBSET Ordinary, filtered : BOOLEAN, shows : [Callers -> SUBSET (Ordinary \cup {Meta})],
            hidden : [Callers -> SUBSET Ordinary], search : BOOLEAN, persistent : BOOLEAN] :
        /\ ~x.filtered => x.shows = [c \in Callers |-> {}]
        /\ ~x.persistent => x.hidden = [c \in Callers |-> {}]}

(* mcp.md "Result caching": a list that is marked public is the same for   *)
(* everyone, so that a gateway may hand one caller's copy to another.      *)
PublicIsShared(x) ==
    ~varies_by_caller(x) => \A c, d \in Callers : tools_list(x, c) = tools_list(x, d) /\ searched(x, c) = searched(x, d)

(* mcp.md "Searching": the search answers as the listing would without it, *)
(* and nothing is found that may not be called.                            *)
SearchAnswersAlike(x) ==
    x.search => \A c \in Callers :
        /\ searched(x, c) = tools_list([x EXCEPT !.search = FALSE], c)
        /\ \A t \in searched(x, c) \cup tools_list(x, c) : may_call(x, c, t)

-----------------------------------------------------------------------------
(* paginate over a catalogue that changes between the pages.  A cursor     *)
(* holds the position (from 0) and the key of the entry a page ended with. *)
NoCursor == [at |-> -1, key |-> 0]
Lowest(a, b) == IF a < b THEN a ELSE b

(* _resume_at: how many entries are behind the cursor.                     *)
ResumeByPosition(entries, cursor) == Lowest(cursor.at + 1, Len(entries))

resume_at(entries, cursor) ==
    LET places == {i \in DOMAIN entries : entries[i] = cursor.key}
    IN  IF places # {} THEN CHOOSE i \in places : TRUE ELSE Lowest(cursor.at, Len(entries))

paginate(entries, cursor, size) ==
    LET start == IF cursor = NoCursor THEN 0 ELSE resume_at(entries, cursor)
        window == SubSeq(entries, start + 1, Lowest(start + size, Len(entries)))
    IN  [page |-> window,
         next |-> IF window = <<>> \/ start + size >= Len(entries) THEN NoCursor
                  ELSE [at |-> start + size - 1, key |-> Last(window)]]

(* A client follows the cursors; x.shown[n] is listed at its n-th request. *)
Listed(shown) == SetToSortSeq(shown, <)
Walk(x) ==
    LET walk[n \in 0 .. Len(x.shown)] ==
            IF n = 0 THEN [got |-> <<>>, cursor |-> NoCursor, more |-> TRUE, asked |-> 0]
            ELSE LET before == walk[n - 1]
                     answer == paginate(Listed(x.shown[n]), before.cursor, x.size)
                 IN  IF ~before.more THEN before
                     ELSE [got |-> before.got \o answer.page, cursor |-> answer.next,
                           more |-> answer.next # NoCursor, asked |-> n]
    IN  walk[Len(x.shown)]

PageCases == [shown : [1 .. 3 -> SUBSET (1 .. 4)], size : 1 .. 2]
Gone(x, n) == x.shown[n] \ x.shown[n + 1]
Came(x, n) == x.shown[n + 1] \ x.shown[n]

NothingSkipped(x) ==
    LET walk == Walk(x) IN
    \A e \in 1 .. 4 : ~walk.more /\ (\A n \in 1 .. walk.asked : e \in x.shown[n]) => e \in Range(walk.got)

(* pagination.py, mcp.md:2326-2328: when a catalogue changes by one entry  *)
(* from a page to the next, whatever stays in it is listed, and once.      *)
PagesAreComplete(x) ==
    (\A n \in 1 .. 2 : Cardinality(Gone(x, n) \cup Came(x, n)) <= 1) =>
        /\ NothingSkipped(x)
        /\ \A e \in 1 .. 4 : (\A n \in 1 .. 3 : e \in x.shown[n]) =>
                Cardinality({i \in DOMAIN Walk(x).got : Walk(x).got[i] = e}) <= 1

(* The guide does not limit it to one.  Not kept: when the entry of the    *)
(* cursor and one before it are gone together, the next one is skipped.    *)
PagesSurviveRemovals(x) == NothingSkipped(x)

-----------------------------------------------------------------------------
(* run_tools.  A step: what its tool does, its id (0: unnamed, n: "stepn"),*)
(* the id its argument refers to (0: none), and whether it is quiet.       *)
Step == [tool : {"works", "fails", "meta"}, id : {0, 2}, ref : 0 .. 2, quiet : BOOLEAN]

(* _step_ids.                                                              *)
step_ids(steps) == [n \in DOMAIN steps |-> IF steps[n].id = 0 THEN n ELSE steps[n].id]
AnyIds(steps) == TRUE
ids_are_distinct(steps) == \A m, n \in DOMAIN steps : step_ids(steps)[m] = step_ids(steps)[n] => m = n

(* _run_tools: for each step what it was given (0: nothing, else the step  *)
(* whose result it refers to), and the report.                             *)
NothingRun == [ran |-> <<>>, results |-> [i \in 1 .. 3 |-> 0], reported |-> <<>>, refused |-> FALSE, stopped |-> FALSE]

run_tools(x) ==
    LET run(state, n) ==
            LET step == x.steps[n]
                failed == step.tool = "fails"
            IN  CASE state.refused \/ state.stopped -> state
                  [] ~state.refused /\ ~state.stopped /\ (step.tool = "meta" \/ (step.ref # 0 /\ state.results[step.ref] = 0)) ->
                        [state EXCEPT !.refused = TRUE]
                  [] OTHER ->
                        [state EXCEPT !.ran = Append(@, [step |-> n, given |-> IF step.ref = 0 THEN 0 ELSE state.results[step.ref]]),
                                      !.results[step_ids(x.steps)[n]] = n,
                                      !.reported = IF ~step.quiet \/ failed THEN Append(@, n) ELSE @,
                                      !.stopped = failed /\ x.stopOnError]
    IN  IF ~ids_are_distinct(x.steps) THEN [NothingRun EXCEPT !.refused = TRUE]
        ELSE FoldLeftDomain(run, NothingRun, x.steps)

PlanCases == [steps : [1 .. 2 -> Step] \cup [1 .. 3 -> Step], stopOnError : BOOLEAN]

(* toolsearch.py: a reference gets the result of the step of that name and *)
(* there is only one, a failure is reported even of a quiet step, and      *)
(* nothing runs after the one that stopped the plan.                       *)
PlansRunAsDeclared(x) ==
    LET outcome == run_tools(x)
        ids == step_ids(x.steps)
    IN  /\ \A i \in DOMAIN outcome.ran :
            LET ran == outcome.ran[i]
                wanted == x.steps[ran.step].ref
            IN  /\ wanted # 0 => {n \in DOMAIN x.steps : ids[n] = wanted} = {ran.given}
                /\ x.steps[ran.step].tool = "fails" => ran.step \in Range(outcome.reported)
                /\ x.stopOnError /\ x.steps[ran.step].tool = "fails" => i = Len(outcome.ran)

(* mcp.md: a plan that is stopped still reports the steps that ran.  Not   *)
(* kept when a step is refused for its reference or for naming one of the  *)
(* three tools: the whole call fails and the report with it.               *)
RanIsReported(x) == run_tools(x).refused => run_tools(x).ran = <<>>

-----------------------------------------------------------------------------
(* derive_tool over the two arguments of a tool, and the translation of a  *)
(* call.  A transform: its name, whether it hides the argument, gives a    *)
(* default, or says whether it is required.                                *)
Arguments == {"p", "q"}
Kept(a) == [name |-> a, hide |-> FALSE, default |-> FALSE, required |-> "as declared"]
Transforms ==
    {t \in [name : Arguments \cup {"r"}, hide : BOOLEAN, default : BOOLEAN, required : {"as declared", "yes", "no"}] :
        t.hide => t.default /\ t.required = "as declared"}

published(x, a) == ~x.how[a].hide
published_required(x, a) ==
    /\ published(x, a)
    /\ CASE x.how[a].required = "as declared" -> a \in x.required /\ ~x.how[a].default
         [] OTHER -> x.how[a].required = "yes"

(* _Derivation.translate: what the handler is given for a, if anything.    *)
DefaultsOnly(x, call, a) == IF x.how[a].name \in call /\ published(x, a) THEN x.how[a].name ELSE "nothing"

translate(x, call, a) ==
    CASE ~published(x, a) -> "default"
      [] published(x, a) /\ x.how[a].name \in call -> x.how[a].name
      [] OTHER -> IF x.how[a].default THEN "default" ELSE "nothing"

DerivedCases == [how : [Arguments -> Transforms], required : SUBSET Arguments, call : SUBSET (Arguments \cup {"r"})]
Conforms(x) == \A a \in Arguments : published_required(x, a) => x.how[a].name \in x.call

(* transform.py: a call that has what the derived tool asks for gives the  *)
(* handler all it needs, unless required=False took that away.             *)
DerivedCallsBind(x) ==
    Conforms(x) => \A a \in x.required : translate(x, x.call, a) = "nothing" => x.how[a].required = "no"

(* Each published argument is one of the handler's.  Not kept: two may be  *)
(* given the same name, and one value then goes to both.                   *)
DerivedNamesAreApart(x) == \A a, b \in Arguments : published(x, a) /\ published(x, b) /\ x.how[a].name = x.how[b].name => a = b

-----------------------------------------------------------------------------
(* handle_message.  m.outcome is how the handler of the method ends.       *)
Methods == {"none", "initialize", "ping", "notifications/initialized", "tools/list", "tools/call", "unknown"}
Outcomes == {"result", "error", "timeout", "fault", "deferred"}
MessageCases ==
    [jsonrpc : BOOLEAN, id : {"absent", "null", "7"}, method : Methods, reply : BOOLEAN, task : BOOLEAN,
     version : {"unnamed", "modern", "handshake", "later"}, outcome : Outcomes,
     session : BOOLEAN, persistent : BOOLEAN, initialized : BOOLEAN, enforced : BOOLEAN]

notification(m) == m.id = "absent"
is_modern(m) == m.version \in {"modern", "later"}

(* _gate_session: a request that comes before the handshake.               *)
gate_session(m) ==
    /\ m.session /\ m.method \notin {"initialize", "notifications/initialized", "ping"}
    /\ m.enforced /\ m.persistent /\ ~m.initialized /\ ~notification(m)

known(m) == m.method # "unknown" /\ ~(is_modern(m) /\ m.method = "ping")

(* The answer: none, an error that names no request, or one with its id.   *)
Unless(condition, answer) == IF condition THEN "none" ELSE answer

handle_message(m) ==
    CASE ~m.jsonrpc -> "error"
      [] m.jsonrpc /\ m.method = "none" -> Unless(~notification(m) /\ m.reply, "error")
      [] m.jsonrpc /\ m.method # "none" /\ m.id = "null" -> "error"
      [] OTHER ->
            CASE m.version = "later" -> Unless(notification(m), "error")
              [] m.version # "later" /\ gate_session(m) -> "error"
              [] m.version # "later" /\ ~gate_session(m) ->
                    IF m.task /\ m.method # "tools/call" /\ ~notification(m) THEN "error"
                    ELSE IF ~known(m) THEN Unless(notification(m), "error")
                    ELSE IF m.outcome \in {"error", "timeout", "fault"} THEN "error"
                    ELSE Unless(notification(m) \/ m.outcome = "deferred", "result")

(* server.py:607-613: "None for notifications".  Not kept: the error of a  *)
(* notification's handler is returned as an answer without an id.          *)
NotificationsAreUnanswered(m) == m.jsonrpc /\ m.method # "none" /\ notification(m) => handle_message(m) = "none"

(* Every request that names itself is answered, unless its answer was put  *)
(* off; one before the handshake by an error; and no notification is ever  *)
(* answered with a result.                                                 *)
RequestsAreAnswered(m) ==
    /\ m.jsonrpc /\ m.id = "7" /\ m.method # "none" /\ m.outcome # "deferred" => handle_message(m) # "none"
    /\ m.jsonrpc /\ m.method # "none" /\ gate_session(m) => handle_message(m) = "error"
    /\ notification(m) => handle_message(m) # "result"

-----------------------------------------------------------------------------
(* _produce_tool_result: what a call comes to and the status the hooks of  *)
(* app.add_instrumentation are given for it (0: they are not called).      *)
Ended(result, told) == [result |-> result, told |-> told]
CallCases ==
    [ends : {"value", "response", "in band", "timeout", "protocol", "fault"}, status : {200, 404},
     stream : {"none", "ends", "too large", "fails"}, binary : BOOLEAN, passthrough : BOOLEAN,
     model : {"none", "conforms", "fails"}]

tool_result(x) ==
    CASE x.ends = "in band" -> Ended("tool error", 409)
      [] x.ends = "timeout" -> Ended("tool error", 504)
      [] x.ends = "protocol" -> Ended("error", 422)
      [] x.ends = "fault" -> Ended("tool error", 500)
      [] x.ends \in {"value", "response"} ->
            CASE x.stream = "too large" -> Ended("tool error", 500)
              [] x.stream = "fails" -> Ended("error", 0)
              [] (x.ends = "response" \/ x.binary) /\ x.stream \in {"none", "ends"} ->
                    Ended(IF x.status >= 400 THEN "tool error" ELSE "success", x.status)
              [] x.ends = "value" /\ ~x.binary /\ x.stream \in {"none", "ends"} ->
                    Ended(IF ~x.passthrough /\ x.model = "fails" THEN "tool error" ELSE "success", 200)

(* mcp.md "Instrumentation": "Each tool call fires the same hooks", and    *)
(* "`200` only on genuine success".  Not kept: a result that does not      *)
(* conform to its schema is told as 200, and a result stream that fails is *)
(* not told at all.                                                        *)
CallsAreToldAsTheyEnd(x) ==
    LET end == tool_result(x) IN end.told # 0 /\ (end.told = 200 <=> end.result = "success")

(* It holds of the calls whose stream ends and whose result conforms.      *)
ConformingCallsAreTold(x) == x.stream # "fails" /\ x.model # "fails" => CallsAreToldAsTheyEnd(x)

-----------------------------------------------------------------------------
(***************************************************************************)
(* What a tool does through its MCPContext: a run of sampling rounds in    *)
(* which the client's model asks for tools and is given their results      *)
(* (sample_with_tools), the requests a client's capabilities permit, and   *)
(* the names a connection hides from its listings.                         *)
(***************************************************************************)

(***************************************************************************)
(* Sampling.  A model answers with blocks: text, or the use of a tool; the *)
(* tools end well, with an error result, or with an MCPError.              *)
(***************************************************************************)
ToolNames == {"good", "erring", "refused", "strange"}
RegisteredTools == ToolNames \ {"strange"}
Blocks == {"text"} \cup ToolNames

(* _request and _require_sub_capability: what the client must advertise.   *)
permitted(caps) == {"sampling", "sampling.tools"} \subseteq caps

(* _run_sampled_tool: a tool that was not offered is not run.              *)
_run_sampled_tool(name, allowed) ==
    [name |-> name, ran |-> name \in allowed, error |-> name \notin allowed \/ name # "good"]

requested(blocks) == SelectSeq(blocks, LAMBDA b : b # "text")

Assistant(blocks) == [role |-> "assistant", uses |-> requested(blocks), results |-> <<>>]
User(calls) == [role |-> "user", uses |-> <<>>, results |-> calls]

(* sample_with_tools: rounds until one asks for no tool; the last allowed  *)
(* round offers none, and ends the run whatever it asks for.               *)
final_round(n, most) == n = most + 1

NeverFinal(n, most) == n = most + 2

sample_with_tools(c) ==
    LET round[n \in 0 .. Len(c.answers)] ==
            IF n = 0 THEN [log |-> <<>>, calls |-> <<>>, rounds |-> 0, ended |-> FALSE]
            ELSE LET b == round[n - 1]
                     uses == requested(c.answers[n])
                     last == final_round(n, c.most)
                     calls == [i \in DOMAIN uses |-> _run_sampled_tool(uses[i], c.offered)]
                     said == Append(b.log, Assistant(c.answers[n]))
                 IN IF b.ended THEN b
                    ELSE IF uses = <<>> \/ last
                    THEN [b EXCEPT !.log = said, !.rounds = n, !.ended = TRUE]
                    ELSE [log |-> Append(said, User(calls)), calls |-> b.calls \o calls,
                          rounds |-> n, ended |-> FALSE]
    IN round[Len(c.answers)]

(* _declare_tools refuses a run that offers a tool nobody registered.      *)
Starts(c) == c.offered \subseteq RegisteredTools /\ permitted(c.advertised)

RoundAnswers == {<<"text">>, <<"good">>, <<"refused", "text", "erring">>, <<"strange">>}
SamplingCases ==
    [offered : SUBSET ToolNames, most : 0 .. 2, answers : [1 .. 3 -> RoundAnswers],
     advertised : SUBSET {"sampling", "sampling.tools"}]

(***************************************************************************)
(* Visibility.  A name may be that of a tool and of a prompt; a tool may   *)
(* ask for scopes the caller lacks, and the catalogue may be published     *)
(* through search, which lists none of the ordinary tools.                 *)
(***************************************************************************)
Names == {"n1", "n2"}
Kinds == {"tools", "prompts", "resources"}
VisibilityCases ==
    [is : [Names -> SUBSET Kinds], scoped : SUBSET Names, search : BOOLEAN,
     hidden : SUBSET Names, change : {"hide", "unhide", "reset"}, names : SUBSET Names]

mutated(c) ==
    CASE c.change = "hide" -> c.hidden \cup c.names
      [] c.change = "unhide" -> c.hidden \ c.names
      [] c.change = "reset" -> {}

(* _candidate_tools, _visible_tools and _listing: what a kind lists.       *)
listed(c, kind, hidden) ==
    {n \in Names \ hidden : kind \in c.is[n] /\ n \notin c.scoped
                            /\ ~(kind = "tools" /\ c.search)}

NewlyHidden(before, after) == after \ before

(* _change_visibility and _changed_kinds: the lists that are announced.    *)
changed_names(before, after) == (before \ after) \cup (after \ before)

announced(c) == UNION {c.is[n] : n \in changed_names(c.hidden, mutated(c))}

----------------------------------------------------------------------------
(* The transcript a run hands back to the model is well formed: every use  *)
(* of a tool has its result, in order, in the message that follows, but    *)
(* for the last message, which nothing follows; the run ends within its    *)
(* rounds, and no tool runs that it did not offer.                         *)
TranscriptsAreAnswered(c) ==
    Starts(c) =>
        LET r == sample_with_tools(c)
            n == Len(r.log) IN
        /\ \A i \in 1 .. n - 1 : r.log[i].role = "assistant" =>
              /\ r.log[i + 1].role = "user"
              /\ Len(r.log[i + 1].results) = Len(r.log[i].uses)
              /\ \A k \in DOMAIN r.log[i].uses :
                    r.log[i + 1].results[k].name = r.log[i].uses[k]
        /\ r.rounds <= c.most + 1
        /\ \A i \in DOMAIN r.calls : r.calls[i].ran => r.calls[i].name \in c.offered
        /\ Len(r.calls) = FoldLeft(LAMBDA sum, e : sum + Len(e.results), 0, r.log)

(* A connection is told of every list of its own that a change of what it  *)
(* hides alters.                                                           *)
HidingIsTold(c) ==
    \A k \in Kinds : listed(c, k, c.hidden) # listed(c, k, mutated(c)) => k \in announced(c)

(* And of no other: a tool the caller's scopes or a search keep from its   *)
(* list is announced all the same.                                         *)
OnlyChangesAreTold(c) ==
    \A k \in announced(c) : listed(c, k, c.hidden) # listed(c, k, mutated(c))

-----------------------------------------------------------------------------
(***************************************************************************)
(* The arguments of an MCP tool call (contrib/mcp/plan_bridge.py): JSON    *)
(* values put into the types a handler declares, against the schema the    *)
(* tool published for them.                                                *)
(***************************************************************************)

(* A JSON scalar, or the Python value made of one: its type, and its value *)
(* in halves where it is a number or a text that reads as one.             *)
NaN == 0
V(type, halves) == [type |-> type, halves |-> halves]
Null == V("null", NaN)
Scalars == {Null, V("bool", NaN), V("int", 4), V("float", 4), V("float", 5), V("str", 4), V("str", 5), V("str", NaN)}
Refused == V("refused", NaN)

(* _coerce_value: int() and float().                                       *)
coerce_value(v, target) ==
    CASE v.type = "str" /\ v.halves = NaN -> Refused
      [] v.type = "str" /\ v.halves # NaN ->
            IF target = "int" /\ v.halves % 2 # 0 THEN Refused ELSE V(target, v.halves)
      [] OTHER -> V(target, IF target = "int" THEN 2 * (v.halves \div 2) ELSE v.halves)

NeverLossy(v, target) == FALSE

(* _coerce_json_scalar.  No bool for a number, and no fraction for an int. *)
lossy(v, target) == target = "int" /\ v.type = "float" /\ v.halves % 2 # 0

coerce_json_scalar(v, target, optional) ==
    CASE v.type = "null" -> IF optional THEN v ELSE Refused
      [] v.type # "null" /\ target \in {"str", "bool"} -> IF v.type = target THEN v ELSE Refused
      [] v.type # "null" /\ target \in {"int", "float"} ->
            IF v.type = "bool" \/ lossy(v, target) THEN Refused ELSE coerce_value(v, target)

(* _coerce_union_member: the first member that takes it.                   *)
coerce_union_member(v, members) ==
    LET taken == SelectSeq(members, LAMBDA t : coerce_json_scalar(v, t, FALSE) # Refused)
    IN  IF taken = <<>> THEN Refused ELSE coerce_json_scalar(v, taken[1], FALSE)

(* _coerce_list_item under _member_contract: null is the member type's own *)
(* business, not that of the parameter.                                    *)
coerce_list_item(v, member) ==
    IF v.type = "null" THEN (IF member.nullable THEN v ELSE Refused)
    ELSE coerce_union_member(v, member.types)

(* _coerce_list_members: a type for all, or one for each place, then the   *)
(* container, of which a set drops duplicates, then the bound on it.       *)
BoundedFirst(d, sent, built) == Len(sent) >= d.minLength

long_enough(d, sent, built) == Cardinality(built) >= d.minLength

coerce_list_members(d, sent) ==
    LET items == [i \in DOMAIN sent |-> coerce_list_item(sent[i], d.member)]
        built == IF d.container = "set" THEN {<<0, items[i]>> : i \in DOMAIN items} ELSE {<<i, items[i]>> : i \in DOMAIN items}
    IN  IF Refused \in Range(items) \/ (d.container = "pair" /\ Len(sent) # 2) \/ ~long_enough(d, sent, built)
        THEN [ok |-> FALSE, items |-> {}] ELSE [ok |-> TRUE, items |-> built]

Members == [types : {<<"int">>, <<"float">>, <<"str">>, <<"bool">>, <<"int", "str">>, <<"str", "int">>, <<"bool", "float">>}, nullable : BOOLEAN]
ArgumentCases ==
    [d : [member : Members, container : {"list", "set", "pair"}, minLength : 0 .. 2], sent : BoundedSeq(Scalars, 2)]

-----------------------------------------------------------------------------
(* The published schema: the JSON type of each member.                     *)
json_type(v, t) == v.type = t \/ (t = "float" /\ v.type = "int") \/ (t = "int" /\ v.type = "float" /\ v.halves % 2 = 0)
InSchema(v, member) == (v.type = "null" /\ member.nullable) \/ \E t \in Range(member.types) : json_type(v, t)
Inhabits(v, member) == (v.type = "null" /\ member.nullable) \/ v.type \in Range(member.types)

(* What a handler is given has the types and the length it declares, and   *)
(* is the value that was sent: nothing is rounded or dropped on the way    *)
(* but the duplicates of a set.                                            *)
DeliveredAsDeclared(x) ==
    LET got == coerce_list_members(x.d, x.sent) IN got.ok =>
        /\ \A item \in got.items : Inhabits(item[2], x.d.member)
        /\ Cardinality(got.items) >= x.d.minLength
        /\ {item[2].halves : item \in got.items} = {v.halves : v \in Range(x.sent)}

(* What conforms to the schema is taken.                                   *)
ConformingIsTaken(x) ==
    /\ \A v \in Range(x.sent) : InSchema(v, x.d.member)
    /\ x.d.minLength = 0 /\ (x.d.container = "pair" => Len(x.sent) = 2)
    => coerce_list_members(x.d, x.sent).ok

(* "a model that sent the wrong JSON type is better told so than           *)
(* corrected" (plan_bridge.py:664).  Not kept for a text that reads as a   *)
(* number.                                                                 *)
ToldNotCorrected(x) ==
    coerce_list_members(x.d, x.sent).ok => \A v \in Range(x.sent) : InSchema(v, x.d.member)

(* A text sent where a text is declared stays one.  Not kept by int | str, *)
(* which turns "2" into a number.                                          *)
TextStaysText(x) ==
    LET got == coerce_list_members(x.d, x.sent)
    IN  got.ok /\ x.d.container = "list" /\ "str" \in Range(x.d.member.types) =>
            \A item \in got.items : x.sent[item[1]].type = "str" => item[2].type = "str"
=============================================================================
