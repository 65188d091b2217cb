------------------------------- MODULE MCWeb -------------------------------
(***************************************************************************)
(* The operators that turn requests into values and results into answers,  *)
(* checked over all the cases of their modules: a behaviour is one case of *)
(* one of them.                                                            *)
(***************************************************************************)
EXTENDS Integers

VARIABLES about, x \* which operator, and the case

Par == INSTANCE Parameters
Out == INSTANCE Responses
Fil == INSTANCE FileServing
Sec == INSTANCE SecurityMiddleware
Cat == INSTANCE McpCatalogue
Cre == INSTANCE Credentials
Har == INSTANCE TestHarness

Init ==
    \/ about = "parameters" /\ x \in UNION {{[d |-> d, r |-> q] : q \in {q \in Par!Requests : Par!Meets(d, q)}} : d \in Par!Declarations}
    \/ about = "response" /\ x \in Out!OutCases
    \/ about = "file" /\ x \in Fil!FileCases
    \/ about = "tree" /\ x \in Fil!TreeCases
    \/ about = "form" /\ x \in Par!FormCases
    \/ about = "accept" /\ x \in Par!AcceptCases
    \/ about = "csrf" /\ x \in Sec!CsrfCases
    \/ about = "proxy" /\ x \in Sec!ProxyCases
    \/ about = "redirect to https" /\ x \in Sec!RedirectCases
    \/ about = "versions" /\ x \in Cat!VersionCases
    \/ about = "listing" /\ x \in Cat!ListingCases
    \/ about = "pages" /\ x \in Cat!PageCases
    \/ about = "plan" /\ x \in Cat!PlanCases
    \/ about = "derived tool" /\ x \in Cat!DerivedCases
    \/ about = "message" /\ x \in Cat!MessageCases
    \/ about = "call" /\ x \in Cat!CallCases
    \/ about = "mounts" /\ x \in Fil!MountCases
    \/ about = "priorities" /\ x \in Fil!PriorityCases
    \/ about = "client redirect" /\ x \in Har!RedirectCases
    \/ about = "client reader" /\ x \in Har!ReadCases
    \/ about = "schemes" /\ x \in Cre!SchemeCases
    \/ about = "token" /\ x \in Cre!TokenCases
    \/ about = "verifier" /\ x \in Cre!Verifiers
    \/ about = "grant type" /\ x \in Cre!GrantTypes
    \/ about = "logins" /\ x \in Cre!IdentityCases
    \/ about = "limits" /\ x \in Sec!LimitCases
    \/ about = "sampling" /\ x \in Cat!SamplingCases
    \/ about = "visibility" /\ x \in Cat!VisibilityCases
    \/ about = "policy headers" /\ x \in Sec!CspCases
    \/ about = "host" /\ x \in Sec!HostCases
    \/ about = "result" /\ x \in Out!ResultCases
    \/ about = "made response" /\ x \in Out!MakeCases
    \/ about = "arguments" /\ x \in Cat!ArgumentCases
    \/ about = "listener message" /\ x \in Par!ListenerCases
    \/ about = "field" /\ x \in Out!FieldCases
    \/ about = "client verb" /\ x \in Har!VerbCases
    \/ about = "json door" /\ x \in Par!JsonCases

Next == UNCHANGED <<about, x>>

Spec == Init /\ [][Next]_<<about, x>>

-----------------------------------------------------------------------------
(* What holds.                                                             *)

(* A value a handler gets has its declared type and bounds, whichever      *)
(* source and resolver it came by.                                         *)
TypedOrRefused == about = "parameters" => Par!TypedOrRefused(x.d, x.r)

(* The generated resolver answers every request as the interpreter of      *)
(* plans does.                                                             *)
ResolversAgree == about = "parameters" => Par!ResolversAgree(x.d, x.r)

(* What the published document does not require may be left out.           *)
OptionalMayBeOmitted == about = "parameters" => Par!OptionalMayBeOmitted(x.d, x.r)

(* The bytes after a head are as many as it announces.                     *)
FramedAsAdvertised == about = "response" => Out!FramedAsAdvertised(x)

(* A cache that obeys Vary hands nobody an answer made for another Origin  *)
(* or encoding.                                                            *)
VaryIsEnough == about = "response" => Out!VaryIsEnough(x)

(* Who has the current representation is told 304, who has an older one is *)
(* sent the new one.                                                       *)
RevalidationWorks == about = "response" => Out!RevalidationWorks(x)

(* A range is what the file has of it, or 416.                             *)
RangesAreExact == about = "file" => Fil!RangesAreExact(x)

(* Parts fetched under If-Range are never of two versions.                 *)
PartsOfOneVersion == about = "file" => Fil!PartsOfOneVersion(x)

(* Files of different modification times have different tags.              *)
TagsTellTimesApart == about = "file" => Fil!TagsTellTimesApart(x)

(* What a static directory serves is inside it.                            *)
ServedFromTree == about = "tree" => Fil!ServedFromTree(x)

(* An index page is served under its slash only.                           *)
IndexUnderSlash == about = "tree" => Fil!IndexUnderSlash(x)

(* A refused form leaves no spool open, an accepted one exactly its        *)
(* uploads.                                                                *)
NoSpoolLeaks == about = "form" => Par!NoSpoolLeaks(x)

(* A form is refused exactly when it is over one of its limits.            *)
LimitsAreExact == about = "form" => Par!LimitsAreExact(x)

(* What is negotiated is something the Accept header wants, and nothing it *)
(* wants more is passed over.                                              *)
NegotiatedIsWanted == about = "accept" => Par!NegotiatedIsWanted(x)

(* Who was refused for its token gets through with the cookie of the       *)
(* refusal.                                                                *)
EchoingPasses == about = "csrf" => Sec!EchoingPasses(x)

(* What is believed of a proxied request is what the outermost trusted     *)
(* proxy said.                                                             *)
ProxyIsBelieved == about = "proxy" => Sec!ProxyIsBelieved(x)

(* Who follows the redirect to https is not redirected again.              *)
RedirectSettles == about = "redirect to https" => Sec!RedirectSettles(x)

(* Each version of a tool answers for itself and the highest is listed.    *)
VersionsAreKept == about = "versions" => Cat!VersionsAreKept(x)

(* A list that is marked public is the same for everyone.                  *)
PublicIsShared == about = "listing" => Cat!PublicIsShared(x)

(* Search finds what the listing shows.                                    *)
SearchAnswersAlike == about = "listing" => Cat!SearchAnswersAlike(x)

(* An entry that stays while the catalogue changes is listed once over the *)
(* pages.                                                                  *)
PagesAreComplete == about = "pages" => Cat!PagesAreComplete(x)

(* A plan of calls runs in order, tells its failures, and nothing runs     *)
(* after the one that stopped it.                                          *)
PlansRunAsDeclared == about = "plan" => Cat!PlansRunAsDeclared(x)

(* A call a derived tool accepts gives the handler all it needs.           *)
DerivedCallsBind == about = "derived tool" => Cat!DerivedCallsBind(x)

(* No path is under two mounts.                                            *)
MountsAreApart == about = "mounts" => Fil!MountsAreApart(x)

(* The middleware of higher priority is further out, equal ones in the     *)
(* order they were added.                                                  *)
PriorityDecides == about = "priorities" => Fil!PriorityDecides(x)

(* The test client follows redirects to an end, and never sends a body     *)
(* twice that can be read once.                                            *)
RedirectsSettle == about = "client redirect" => Har!RedirectsSettle(x)

(* Each hop carries the cookies the answers before it left.                *)
HopsCarryCookies == about = "client redirect" => Har!HopsCarryCookies(x)

(* After a response the reader of the live client is at the head of the    *)
(* next.                                                                   *)
ReaderStaysInStep == about = "client reader" => Har!ReaderStaysInStep(x)

(* Of optional schemes side by side exactly the one a header names takes   *)
(* it.                                                                     *)
AlternativesCompose == about = "schemes" => Cre!AlternativesCompose(x)

(* A token is good exactly from nbf - leeway to just before exp + leeway.  *)
TokensLiveTheirLife == about = "token" => Cre!TokensLiveTheirLife(x)

(* One login leaves a verifier that accepts the same passwords and needs   *)
(* no second upgrade.                                                      *)
RehashSettles == about = "verifier" => Cre!RehashSettles(x)

(* The next request is made as who logged in last, with the scopes of that *)
(* login.                                                                  *)
LastLoginCounts == about = "logins" => Cre!LastLoginCounts(x)

(* The state one strategy stored is never read by another.                 *)
OneStrategyPerCounter == about = "limits" => Sec!OneStrategyPerCounter(x)

(* Requests of one caller under one limit share a counter.                 *)
OneCounterPerCaller == about = "limits" => Sec!OneCounterPerCaller(x)

(* Every use of a tool in a transcript has its result in the next message. *)
TranscriptsAreAnswered == about = "sampling" => Cat!TranscriptsAreAnswered(x)

(* A connection is told of every list a change of what it hides alters.    *)
HidingIsTold == about = "visibility" => Cat!HidingIsTold(x)

(* The nonce of a page and those of both policies are one.                 *)
OneNoncePerAnswer == about = "policy headers" => Sec!OneNoncePerAnswer(x)

(* A host is served exactly if an entry names it, for requests as for      *)
(* handshakes.                                                             *)
HostsAreNamed == about = "host" => Sec!HostsAreNamed(x)

(* Nothing but the fields of the response model leaves, of a subclass      *)
(* neither.                                                                *)
UndeclaredFieldsDrop == about = "result" => Out!UndeclaredFieldsDrop(x)

(* A status other than 200 that a handler gives is the one sent.           *)
StatusIsTheHandlers == about = "result" => Out!StatusIsTheHandlers(x)

(* make_response makes of a value what dispatch makes of it.               *)
MadeAsDispatched == about = "made response" => Out!MadeAsDispatched(x)

(* A tool argument is delivered in its declared type, and is the value     *)
(* that was sent.                                                          *)
DeliveredAsDeclared == about = "arguments" => Cat!DeliveredAsDeclared(x)

(* What conforms to the published schema is taken.                         *)
ConformingIsTaken == about = "arguments" => Cat!ConformingIsTaken(x)

(* A listener that was accepted decodes a frame alike in whatever order    *)
(* its message types stand.                                                *)
ListenersAreUnambiguous == about = "listener message" => Par!ListenersAreUnambiguous(x)

(* A header field, a cookie and a slice of the body go out as they were    *)
(* set.                                                                    *)
FieldsAreKept == about = "field" => Out!FieldsAreKept(x)

(* request(verb) sends what the method of the verb sends, on either test   *)
(* client.                                                                 *)
VerbsAgree == about = "client verb" => Har!VerbsAgree(x)

(* A JSON body is handed out only as its type allows, whichever accessor   *)
(* asks and after whichever others.                                        *)
JsonDoorsAgree == about = "json door" => Par!JsonDoorsAgree(x)

(* A request is answered unless its answer was put off, one before the     *)
(* handshake by an error, and a notification never with a result.          *)
RequestsAreAnswered == about = "message" => Cat!RequestsAreAnswered(x)

(* The hooks are told of a call as it ended, if its stream ends and its    *)
(* result conforms.                                                        *)
ConformingCallsAreTold == about = "call" => Cat!ConformingCallsAreTold(x)

-----------------------------------------------------------------------------
(* What the documentation or a neighbouring piece of code lets one expect  *)
(* and the code does not keep: as an invariant of Spec each ends in a      *)
(* counterexample.                                                         *)

(* A missing required parameter is a 422 (parameters.md:345).              *)
RequiredIsRefused == about = "parameters" => Par!RequiredIsRefused(x.d, x.r)

(* A model given to a handler by an MCP call was validated.                *)
ModelsAreBuilt == about = "parameters" => Par!ModelsAreBuilt(x.d, x.r)

(* A stream under a status without a body sends none (response.py:1154).   *)
BodilessHasNoBody == about = "response" => Out!BodilessHasNoBody(x)

(* An answer for any origin may be cached for any (cors.py:152).           *)
CacheKeptFor == about = "response" => Out!CacheKeptFor(x)

(* An ETag is of the bytes sent (middleware.md:240).                       *)
TagsAreOfSentBytes == about = "response" => Out!TagsAreOfSentBytes(x)

(* RevalidationWorks in any order of the middlewares.                      *)
RevalidationAnyOrder == about = "response" => Out!RevalidationAnyOrder(x)

(* HEAD answers as GET would, without the body (protocol.py:1089).         *)
HeadMatchesGet == about = "response" => Out!HeadMatchesGet(x)

(* A 304 announces no length it does not know (response.py:203).           *)
UnknownIsOmitted == about = "response" => Out!UnknownIsOmitted(x)

(* A cached encoding is of the response as it is.                          *)
EncodedIsCurrent == about = "response" => Out!EncodedIsCurrent(x)

(* PartsOfOneVersion for versions of the same second.                      *)
PartsWithinASecond == about = "file" => Fil!PartsWithinASecond(x)

(* Files of different sizes have different tags (static-files.md:175).     *)
TagsTellSizesApart == about = "file" => Fil!TagsTellSizesApart(x)

(* As many bytes follow as were announced when the file changes.           *)
LengthIsKept == about = "file" => Fil!LengthIsKept(x)

(* The first form after a safe request passes.                             *)
FirstFormPasses == about = "csrf" => Sec!FirstFormPasses(x)

(* A version registered twice is refused (mcp.md:1295).                    *)
DuplicatesAreRefused == about = "versions" => Cat!DuplicatesAreRefused(x)

(* PagesAreComplete also when the entry a cursor names is removed          *)
(* (mcp.md:2326).                                                          *)
PagesSurviveRemovals == about = "pages" => Cat!PagesSurviveRemovals(x)

(* What ran is in the report of the plan.                                  *)
RanIsReported == about = "plan" => Cat!RanIsReported(x)

(* Two arguments of a derived tool have two names.                         *)
DerivedNamesAreApart == about = "derived tool" => Cat!DerivedNamesAreApart(x)

(* A notification is not answered (server.py:607).                         *)
NotificationsAreUnanswered == about = "message" => Cat!NotificationsAreUnanswered(x)

(* A call is counted as it ended.                                          *)
CallsAreToldAsTheyEnd == about = "call" => Cat!CallsAreToldAsTheyEnd(x)

(* MountsAreApart with prefixes written with a final slash.                *)
AnyMountsAreApart == about = "mounts" => Fil!AnyMountsAreApart(x)

(* A static directory answers under its prefix only.                       *)
StaticStaysUnderPrefix == about = "mounts" => Fil!StaticStaysUnderPrefix(x)

(* A request without body has no content type.                             *)
LabelsFollowBodies == about = "client redirect" => Har!LabelsFollowBodies(x)

(* A 401 says how to authenticate.                                         *)
RefusalsChallenge == about = "schemes" => Cre!RefusalsChallenge(x)

(* Both forms of the strict grant type accept the same.                    *)
StrictFormsAgree == about = "grant type" => Cre!StrictFormsAgree(x)

(* An upgrade never lowers a cost.                                         *)
RehashNeverWeakens == about = "verifier" => Cre!RehashNeverWeakens(x)

(* Costs within the published bounds are accepted (passwords.py:48).       *)
BoundsAreUsable == about = "verifier" => Cre!BoundsAreUsable(x)

(* What a principal says does not depend on which request asks.            *)
PrincipalIsKept == about = "logins" => Cre!PrincipalIsKept(x)

(* A session that changed hands holds nothing of another (session.py:178). *)
NothingOfAnother == about = "logins" => Cre!NothingOfAnother(x)

(* A decorated limit is that of the handler that runs (ratelimit.py:353).  *)
TagsAreOfTheirHandler == about = "limits" => Sec!TagsAreOfTheirHandler(x)

(* Only the lists that changed are told (context.py:696).                  *)
OnlyChangesAreTold == about = "visibility" => Cat!OnlyChangesAreTold(x)

(* A page that asks gets the nonce of the policy sent.                     *)
EveryPageHasItsNonce == about = "policy headers" => Sec!EveryPageHasItsNonce(x)

(* A nonce policy enforced outermost is the one sent.                      *)
PolicyIsSent == about = "policy headers" => Sec!PolicyIsSent(x)

(* An IPv6 host may be listed as headers spell it.                         *)
BracketsMayBeListed == about = "host" => Sec!BracketsMayBeListed(x)

(* UndeclaredFieldsDrop for any value.                                     *)
UndeclaredAlwaysDrop == about = "result" => Out!UndeclaredAlwaysDrop(x)

(* A tuple overrides the status of its route (requests-responses.md:358).  *)
ExplicitStatusWins == about = "result" => Out!ExplicitStatusWins(x)

(* A tuple means the same under a response model (requests-                *)
(* responses.md:294).                                                      *)
TuplesUnderModels == about = "result" => Out!TuplesUnderModels(x)

(* MadeAsDispatched for a tuple in a tuple.                                *)
MadeAlwaysAsDispatched == about = "made response" => Out!MadeAlwaysAsDispatched(x)

(* A value of the wrong JSON type is refused (plan_bridge.py:664).         *)
ToldNotCorrected == about = "arguments" => Cat!ToldNotCorrected(x)

(* A text sent where one is declared stays one.                            *)
TextStaysText == about = "arguments" => Cat!TextStaysText(x)
=============================================================================
