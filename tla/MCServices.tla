----------------------------- MODULE MCServices -----------------------------
(***************************************************************************)
(* The services beside the server for TLC: limiters, the supervisor,       *)
(* signals, the cache, event streams, subscriptions, the counters shared   *)
(* in Redis, the reloader, MCP over stdio, the test harness, the ASGI      *)
(* adapter, the readers of a body and the token endpoint.  They do not     *)
(* interact, so a behaviour is one of one of them: `which` names it and    *)
(* s1, s2, ... are its variables.                                          *)
(***************************************************************************)
EXTENDS Integers, TLC

CONSTANTS RateKeys,      \* callers of the limiter, interchangeable
          None,
          MaxRestarts, RestartWindow, Backoff, MaxBackoff, SupervisorTime,  \* Supervisor
          Receivers, Asyncs, Filtered, MaxSends,                            \* Signals
          Callers, CacheKeys, MaxEntries, Ttl, MaxNow,                      \* Caching
          Items, MaxPings,                                                  \* EventStream
          Peers, StreamIds, MaxOpened, MaxWalks,                            \* Subscriptions
          RedisWorkers, Budget, WatchRetries, MaxCalls,                     \* RedisLimits
          Files, MaxEdits, MaxSpawns, MtimeSteps, SlowBoot, MaxSignals,     \* Reloader
          NMsg, MaxDeps, MaxDepth, MaxRounds, MaxAsks, AskAfterEof,         \* McpStdio
          TestUsers, SyncUsers, MaxChunks,                                  \* TestClients
          Links, OwnLinks,                                                  \* LiveServer
          BodyLen, BodyLimits,                                              \* AsgiAdapter
          Readers, Chunks, ReadLimits, Modes,                               \* RequestBody
          Clients, Refreshing, Codes, TokenCalls, MaxTokens, Stores         \* OAuthGrants

VARIABLES which, s1, s2, s3, s4, s5, s6, s7, s8, s9, s10, s11

Rate == INSTANCE RateLimit WITH
    strategy <- s1, now <- s2, table <- s3, swept <- s4, admitted <- s5, forgot
    <- s6, last <- s7, requests <- s8,
    Strategies <- {"fixed", "sliding", "bucket", "log"}, Limit <- 2, WindowSec <- 2,
    Rate <- 2, PerSec <- 3, Keys <- RateKeys, None <- None, MaxKeys <- 2,
    Sub <- 2, MaxTime <- 6, MaxRequests <- 6

Sup == INSTANCE Supervisor WITH
    now <- s1, state <- s2, started <- s3, failures <- s4, windowStart <- s5,
    delay <- s6, wakeAt <- s7, ends <- s8, restarts <- s9,
    Window <- RestartWindow, MaxTime <- SupervisorTime

Sig == INSTANCE Signals WITH
    subs <- s1, dead <- s2, walk <- s3, due <- s4, quiet <- s5, wanted <- s6,
    sends <- s7

Cache == INSTANCE Caching WITH
    entries <- s1, version <- s2, deleted <- s3, calls <- s4, now <- s5,
    Keys <- CacheKeys

Sse == INSTANCE EventStream WITH
    made <- s1, source <- s2, pending <- s3, frames <- s4, pings <- s5, pc <- s6

Subs == INSTANCE Subscriptions WITH
    sinks <- s1, streams <- s2, plain <- s3, walk <- s4, walks <- s5, heard <-
    s6

Redis == INSTANCE RedisLimits WITH
    scripting <- s1, loaded <- s2, count <- s3, version <- s4, wk <- s5, calls
    <- s6, admitted <- s7, fellback <- s8

Load == INSTANCE Reloader WITH
    disk <- s1, edits <- s2, sup <- s3, spawned <- s4, ptr <- s5, snap <- s6,
    baseline <- s7, first <- s8, editsSeen <- s9, proc <- s10, signals <- s11

Stdio == INSTANCE McpStdio WITH
    kind <- s1, serving <- s2, phase <- s3, stack <- s4, bound <- s5, waiting <-
    s6, asks <- s7, cancelled <- s8, answers <- s9

Test == INSTANCE TestClients WITH
    lock <- s1, cl <- s2, tidy <- s3, opened <- s4, ex <- s5

Live == INSTANCE LiveServer WITH
    phase <- s1, listening <- s2, link <- s3, tracked <- s4, hooks <- s5, waits <- s6

Asgi == INSTANCE AsgiAdapter WITH
    scope <- s1, req <- s2, wire <- s3, gone <- s4, pc <- s5, got <- s6, events
    <- s7, hooks <- s8,
    Limits <- BodyLimits

Body == INSTANCE RequestBody WITH
    channel <- s1, source <- s2, request <- s3, reader <- s4, uploads <- s5,
    mode <- s6,
    Limits <- ReadLimits

Auth == INSTANCE OAuthGrants WITH
    code <- s1, tokens <- s2, spent <- s3, call <- s4, issued <- s5, taken <-
    s6, exchanged <- s7, replayed <- s8, suspends <- s9,
    Calls <- TokenCalls

\* The bounds of the instances make sense.
ASSUME ServicesAssumption ==
    /\ Rate!RateAssumption /\ Sup!SupervisorAssumption /\ Sig!SignalsAssumption
    /\ Redis!RedisAssumption /\ Stdio!StdioAssumption /\ Test!ClientsAssumption
    /\ Live!LiveAssumption /\ Load!ReloaderAssumption
    /\ Cache!CachingAssumption /\ Sse!StreamAssumption /\ Subs!SubscriptionsAssumption
    /\ Asgi!AdapterAssumption /\ Body!BodyAssumption /\ Auth!GrantsAssumption

Init ==
    \/ which = "rate limit" /\ Rate!Init
       /\ s9 = 0 /\ s10 = 0 /\ s11 = 0
    \/ which = "supervisor" /\ Sup!Init
       /\ s10 = 0 /\ s11 = 0
    \/ which = "signals" /\ Sig!Init
       /\ s8 = 0 /\ s9 = 0 /\ s10 = 0 /\ s11 = 0
    \/ which = "cache" /\ Cache!Init
       /\ s6 = 0 /\ s7 = 0 /\ s8 = 0 /\ s9 = 0 /\ s10 = 0 /\ s11 = 0
    \/ which = "events" /\ Sse!Init
       /\ s7 = 0 /\ s8 = 0 /\ s9 = 0 /\ s10 = 0 /\ s11 = 0
    \/ which = "subscriptions" /\ Subs!Init
       /\ s7 = 0 /\ s8 = 0 /\ s9 = 0 /\ s10 = 0 /\ s11 = 0
    \/ which = "redis" /\ Redis!Init
       /\ s9 = 0 /\ s10 = 0 /\ s11 = 0
    \/ which = "reloader" /\ Load!Init
    \/ which = "mcp stdio" /\ Stdio!Init
       /\ s10 = 0 /\ s11 = 0
    \/ which = "test clients" /\ Test!Init
       /\ s6 = 0 /\ s7 = 0 /\ s8 = 0 /\ s9 = 0 /\ s10 = 0 /\ s11 = 0
    \/ which = "live server" /\ Live!Init
       /\ s7 = 0 /\ s8 = 0 /\ s9 = 0 /\ s10 = 0 /\ s11 = 0
    \/ which = "asgi" /\ Asgi!Init
       /\ s9 = 0 /\ s10 = 0 /\ s11 = 0
    \/ which = "body" /\ Body!Init
       /\ s7 = 0 /\ s8 = 0 /\ s9 = 0 /\ s10 = 0 /\ s11 = 0
    \/ which = "grants" /\ Auth!Init
       /\ s10 = 0 /\ s11 = 0

Next ==
    \/ which = "rate limit" /\ Rate!Next
       /\ UNCHANGED <<which, s9, s10, s11>>
    \/ which = "supervisor" /\ Sup!Next
       /\ UNCHANGED <<which, s10, s11>>
    \/ which = "signals" /\ Sig!Next
       /\ UNCHANGED <<which, s8, s9, s10, s11>>
    \/ which = "cache" /\ Cache!Next
       /\ UNCHANGED <<which, s6, s7, s8, s9, s10, s11>>
    \/ which = "events" /\ Sse!Next
       /\ UNCHANGED <<which, s7, s8, s9, s10, s11>>
    \/ which = "subscriptions" /\ Subs!Next
       /\ UNCHANGED <<which, s7, s8, s9, s10, s11>>
    \/ which = "redis" /\ Redis!Next
       /\ UNCHANGED <<which, s9, s10, s11>>
    \/ which = "reloader" /\ Load!Next
       /\ UNCHANGED which
    \/ which = "mcp stdio" /\ Stdio!Next
       /\ UNCHANGED <<which, s10, s11>>
    \/ which = "test clients" /\ Test!Next
       /\ UNCHANGED <<which, s6, s7, s8, s9, s10, s11>>
    \/ which = "live server" /\ Live!Next
       /\ UNCHANGED <<which, s7, s8, s9, s10, s11>>
    \/ which = "asgi" /\ Asgi!Next
       /\ UNCHANGED <<which, s9, s10, s11>>
    \/ which = "body" /\ Body!Next
       /\ UNCHANGED <<which, s7, s8, s9, s10, s11>>
    \/ which = "grants" /\ Auth!Next
       /\ UNCHANGED <<which, s10, s11>>

Spec == Init /\ [][Next]_<<which, s1, s2, s3, s4, s5, s6, s7, s8, s9, s10, s11>>

KeySymmetry == Permutations(RateKeys)

\* The body the readers of the run share.
ThreeChunks == <<"a", "b", "c">>

\* A caller the table still holds is admitted no more often than its strategy
\* allows: per grid window, in any window of the log, within the estimate of
\* the sliding window, or by the burst and the refill of the bucket; who waits as long as Retry-After says is admitted if
\* nobody else asks (ratelimit.py).
AdmittedWithinLimits ==
    which = "rate limit" => Rate!GridWindowBound /\ Rate!RollingBound /\ Rate!EstimatedBound /\ Rate!BucketBound /\ Rate!RetryIsHonest

\* The supervisor gives a task up only if it ended too often within the
\* window, and no window sees more than twice the budget of restarts and the
\* one that opened it (app/background.py).
TripsOnTightLoopsOnly ==
    which = "supervisor" => Sup!TripsOnTightLoopsOnly /\ Sup!RestartsBounded

\* What is sent arrives once: a signal at every receiver connected all
\* through a send nobody disconnects in (signals.py), each event in order
\* however many pings cut the wait (sse.py), a notification at each
\* subscription while none changes (contrib/mcp/subscriptions.py).
DeliveriesReachAll ==
    /\ which = "signals" => Sig!QuietSendReachesAll
    /\ which = "events" => Sse!PingsLoseNothing
    /\ which = "subscriptions" => Subs!CalmFanOutReachesAll

\* Processes that share a counter admit no more than its budget together,
\* while none runs out of retries (redis.py).
SharedBudgetHolds == which = "redis" => Redis!SharedBudgetHolds

\* The table never holds more than max_entries, a key once, and nothing
\* expired is handed out (cache.py).
CacheKeepsItsBounds == which = "cache" => Cache!CacheKeepsItsBounds

\* When nothing changes any more, the server runs the files that are there,
\* but for one that came after it was started and went before the next poll;
\* no two children serve at once (reloader.py).
ServesWhatIsThere ==
    which = "reloader" => Load!ServesWhatIsThere /\ Load!OneServerAtATime

\* Tool calls over stdio run one after another, each with the request context
\* of its own; what a call opened is torn down before it ends, also a call
\* that was cancelled, unless one of its teardowns lets a cancellation through
\* and the older ones are left (transports/stdio.py, _invocation.py).
CallsKeepTheirPlace ==
    which = "mcp stdio" => Stdio!SerialCalls /\ Stdio!ContextIsOwn /\ Stdio!OpenedAreTorn

\* Clients closed in reverse order, their hooks raising nothing, leave the
\* setup lock as it was before the first, and the application hears of a client
\* leaving only after its answer (testclient.py); a live server that was left
\* has no connection, no listener, and its lifespan ended, and one that never
\* started has no listener and no lifespan (liveserver.py).
HarnessLeavesNoTrace ==
    /\ which = "test clients" => Test!LockComesBack /\ Test!AliveUntilAnswered
    /\ which = "live server" => Live!TeardownIsComplete

\* Readers that take turns get all of a body, or are refused or told that the
\* client left, and open uploads are those the request knows of (request.py);
\* under ASGI a handler runs on a whole body within the limit, or the client
\* has gone, and an accepted socket ends exactly once unless its handler is
\* cancelled, and never twice (asgi.py).
BodiesAreWhole ==
    /\ which = "body" => Body!ReadersGetTheBody /\ Body!UploadsAreKnown
    /\ which = "asgi" => Asgi!WholeOrGone /\ Asgi!ConversationsEnd

\* A code, and a refresh token, is exchanged once; once one came back to a
\* store in memory, no token of its family is good
\* (contrib/mcp/authorization.py).
GrantsEnd ==
    which = "grants" => Auth!GrantsWorkOnce /\ Auth!ReplayEndsFamily

=============================================================================
