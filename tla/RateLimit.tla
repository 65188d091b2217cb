------------------------------ MODULE RateLimit ------------------------------
(***************************************************************************)
(* Rate limiting (ratelimit.py, middleware/security.py): the three         *)
(* strategies over InMemoryRateLimitBackend, and the middleware's own      *)
(* sliding log.  A request is evaluated without an await, so one action    *)
(* is one request.  Time is counted in ticks, Sub of them to the second,   *)
(* and shared by every client; tokens are counted in units of 1 / Per.     *)
(***************************************************************************)
EXTENDS Integers, Sequences, FiniteSets

CONSTANTS
    Strategies,   \* the strategies a limiter may be configured with
    Limit,        \* limit, burst or max_requests
    WindowSec,    \* window in seconds (fixed, sliding, log)
    Rate, PerSec, \* the bucket gains Rate tokens in PerSec seconds
    Keys,         \* the callers
    None,         \* no state, no caller
    MaxKeys,      \* _max_keys
    Sub,          \* ticks per second
    MaxTime,      \* bound: the last tick
    MaxRequests   \* bound: requests in a behaviour

RateAssumption ==
    /\ Strategies \subseteq {"fixed", "sliding", "bucket", "log"}
    /\ {Limit, WindowSec, Rate, PerSec, MaxKeys, Sub} \subseteq Nat \ {0}
    /\ {MaxTime, MaxRequests} \subseteq Nat

VARIABLES
    strategy,  \* the limiter's strategy, chosen when it is built
    now,       \* time.time() or time.monotonic()
    table,     \* the state of each caller, in the order of first insertion
    swept,     \* last_sweep of the sliding log
    admitted,  \* history: when each caller was admitted
    forgot,    \* history: callers whose live state was evicted
    last,      \* the latest decision
    requests   \* requests so far, for the bound

vars == <<strategy, now, table, swept, admitted, forgot, last, requests>>

Window == WindowSec * Sub
Per == PerSec * Sub

Larger(a, b) == IF a >= b THEN a ELSE b
Smaller(a, b) == IF a <= b THEN a ELSE b
CeilDiv(a, b) == -((-a) \div b)

\* Seconds to the next boundary of the fixed grid.
Reset(t) == WindowSec - ((t \div Sub) % WindowSec)

-----------------------------------------------------------------------------
(* The strategies: a decision, the next state, the retry hint and the TTL. *)

\* Mutant: one request too many.
AdmitsUpTo(count) == count <= Limit + 1

Admits(count) == count <= Limit

Fixed(s, t) ==
    LET w     == t \div Window
        count == IF s # None /\ s.window = w THEN s.count + 1 ELSE 1
    IN [allowed |-> Admits(count),
        retry   |-> IF Admits(count) THEN 0 ELSE Reset(t),
        next    |-> [window |-> w, count |-> count],
        ttl     |-> Window]

\* Mutant: the window before is forgotten at the boundary.
UnderAlone(prev, curr, t) == curr < Limit

\* prev * (1 - fraction) + curr < limit, multiplied by the window.
Under(prev, curr, t) ==
    prev * (Window - (t % Window)) + curr * Window < Limit * Window

Sliding(s, t) ==
    LET w    == t \div Window
        prev == IF s # None /\ s.window = w THEN s.prev
                ELSE IF s # None /\ s.window = w - 1 THEN s.curr ELSE 0
        curr == IF s # None /\ s.window = w THEN s.curr ELSE 0
        ok   == Under(prev, curr, t)
    IN [allowed |-> ok,
        retry   |-> IF ok THEN 0 ELSE Larger(1, Reset(t)),
        next    |-> [window |-> w, prev |-> prev,
                     curr |-> IF ok THEN curr + 1 ELSE curr],
        ttl     |-> 2 * Window]

\* Mutant: the refill is not capped at the burst.
RefilledUncapped(s, t) ==
    IF s = None THEN Limit * Per ELSE s.tokens + (t - s.ts) * Rate

Refilled(s, t) ==
    IF s = None THEN Limit * Per
    ELSE Smaller(Limit * Per, s.tokens + (t - s.ts) * Rate)

\* Mutant: the wait is rounded down.
WaitRoundedDown(tokens) == Larger(1, (Per - tokens) \div (Rate * Sub))

BucketWait(tokens) == Larger(1, CeilDiv(Per - tokens, Rate * Sub))

Bucket(s, t) ==
    LET tokens == Refilled(s, t)
        ok     == tokens >= Per
    IN [allowed |-> ok,
        retry   |-> IF ok THEN 0 ELSE BucketWait(tokens),
        next    |-> [tokens |-> IF ok THEN tokens - Per ELSE tokens, ts |-> t],
        ttl     |-> (CeilDiv(Limit * Per, Rate * Sub) + 1) * Sub]

\* Mutant: a stamp is dropped one tick early.
FreshStrict(stamp, t) == stamp > t - Window + 1

Fresh(stamp, t) == stamp > t - Window

\* _process_legacy: expired stamps are dropped, a refusal leaves no stamp.
Log(s, t) ==
    LET stamps == IF s = None THEN <<>>
                  ELSE SelectSeq(s, LAMBDA x : Fresh(x, t))
        ok     == Len(stamps) < Limit
        left   == CeilDiv(stamps[1] + Window - t, Sub)
    IN [allowed |-> ok,
        retry   |-> IF ok THEN 0
                    ELSE IF Smaller(left, WindowSec) > 0 THEN Smaller(left, WindowSec)
                    ELSE WindowSec,
        next    |-> IF ok THEN Append(stamps, t) ELSE stamps,
        ttl     |-> 0]

Evaluate(s, t) ==
    CASE strategy = "fixed"   -> Fixed(s, t)
      [] strategy = "sliding" -> Sliding(s, t)
      [] strategy = "bucket"  -> Bucket(s, t)
      [] strategy = "log"     -> Log(s, t)

-----------------------------------------------------------------------------
(* The store.                                                               *)

\* An entry is stale once its TTL, or its newest stamp, has aged out.
Stale(e, t) ==
    IF strategy = "log"
      THEN e.state = <<>> \/ ~Fresh(e.state[Len(e.state)], t)
      ELSE e.expires <= t

\* What the strategy is given for caller k at time t.
StateOf(k, t) ==
    LET found == SelectSeq(table, LAMBDA e : e.key = k)
    IN IF found = <<>> \/ (strategy # "log" /\ Stale(found[1], t))
         THEN None ELSE found[1].state

\* Mutant: the oldest goes, live or not.
EvictOldest(tab) == IF Len(tab) >= MaxKeys THEN Tail(tab) ELSE tab

\* Stale entries first; if the table is still full, the oldest one.
Evict(tab) ==
    LET live == SelectSeq(tab, LAMBDA e : ~Stale(e, now))
    IN IF Len(live) >= MaxKeys THEN Tail(live) ELSE live

IsFull(tab) == Len(tab) >= MaxKeys

\* The sliding log drops stale buckets once per window.
Swept ==
    IF strategy = "log" /\ now - swept >= Window
      THEN SelectSeq(table, LAMBDA e : ~Stale(e, now)) ELSE table

Store(k, entry, tab) ==
    IF \E i \in DOMAIN tab : tab[i].key = k
      THEN [i \in DOMAIN tab |-> IF tab[i].key = k THEN entry ELSE tab[i]]
      ELSE Append(IF IsFull(tab) THEN Evict(tab) ELSE tab, entry)

\* One request of caller k.
Request(k) ==
    /\ requests < MaxRequests
    /\ LET r     == Evaluate(StateOf(k, now), now)
           entry == [key |-> k, state |-> r.next, expires |-> now + r.ttl]
       IN /\ table' = Store(k, entry, Swept)
          /\ last' = [key |-> k, allowed |-> r.allowed, retry |-> r.retry]
          /\ admitted' = IF r.allowed
                           THEN [admitted EXCEPT ![k] = Append(@, now)]
                           ELSE admitted
    /\ forgot' = forgot \cup
                   {table[i].key : i \in {j \in DOMAIN table :
                       /\ ~Stale(table[j], now)
                       /\ \A n \in DOMAIN table' : table'[n].key # table[j].key}}
    /\ swept' = IF strategy = "log" /\ now - swept >= Window THEN now ELSE swept
    /\ requests' = requests + 1
    /\ UNCHANGED <<now, strategy>>

Tick ==
    /\ now < MaxTime
    /\ now' = now + 1
    /\ UNCHANGED <<strategy, table, swept, admitted, forgot, last, requests>>

Init ==
    /\ strategy \in Strategies
    /\ now = 0 /\ swept = 0 /\ requests = 0
    /\ table = <<>>
    /\ admitted = [k \in Keys |-> <<>>]
    /\ forgot = {}
    /\ last = [key |-> None, allowed |-> TRUE, retry |-> 0]

Next == Tick \/ \E k \in Keys : Request(k)

Spec == Init /\ [][Next]_vars

-----------------------------------------------------------------------------
(* What the limiter promises.                                               *)

\* The type of every variable.
TypeOK ==
    /\ strategy \in Strategies
    /\ now \in 0 .. MaxTime /\ swept \in 0 .. MaxTime
    /\ requests \in 0 .. MaxRequests
    /\ \A i \in DOMAIN table : table[i].key \in Keys /\ table[i].expires \in Nat
    /\ admitted \in [Keys -> Seq(0 .. MaxTime)]
    /\ forgot \subseteq Keys
    /\ last.allowed \in BOOLEAN /\ last.retry \in Nat

\* The number of admissions of caller k at times from a to b.
Admissions(k, a, b) ==
    Cardinality({i \in DOMAIN admitted[k] :
                    a <= admitted[k][i] /\ admitted[k][i] <= b})

\* No window of the fixed grid admits more than the limit, whatever was
\* refused in between (FixedWindow, SlidingWindow); so a burst across a
\* boundary admits at most twice the limit.
GridWindowBound ==
    strategy \in {"fixed", "sliding"} =>
    \A k \in Keys \ forgot : \A w \in 0 .. MaxTime \div Window :
        Admissions(k, w * Window, (w + 1) * Window - 1) <= Limit

\* Every rolling window of the default limiter, the sliding log, admits at
\* most the limit, although stamps are dropped one by one and whole buckets
\* are swept (_SlidingLog).  SlidingWindow only estimates it.
RollingBound ==
    strategy = "log" =>
    \A k \in Keys \ forgot : \A t \in 0 .. MaxTime :
        Admissions(k, t, t + Window - 1) <= Limit

\* SlidingWindow estimates it: a rolling window that begins at some offset of
\* a grid window admits at most the limit, weighted by one and that offset,
\* rounded up (its docstring says `limit` per rolling window).
EstimatedBound ==
    strategy = "sliding" =>
    \A k \in Keys \ forgot : \A t \in 0 .. MaxTime :
        LET offset == IF t % Window = 0 THEN 0 ELSE (t % Window) - 1
        IN  (Admissions(k, t, t + Window - 1) - 1) * Window < Limit * (Window + offset)

\* Over any stretch of time the bucket admits its burst and what it refilled
\* (TokenBucket): the average holds although bursts are allowed.
BucketBound ==
    strategy = "bucket" =>
    \A k \in Keys \ forgot : \A i, j \in DOMAIN admitted[k] :
        i <= j => (j - i + 1) * Per
                    <= Limit * Per + (admitted[k][j] - admitted[k][i]) * Rate

\* A caller that was refused and comes back after exactly the advertised time
\* is admitted, if nothing happened in between (RateLimitResult.retry_after).
\* SlidingWindow does not keep this: at the boundary it names, the previous
\* window still weighs in full.
RetryIsHonest ==
    strategy # "sliding" /\ ~last.allowed =>
        LET t == now + last.retry * Sub
        IN Evaluate(StateOf(last.key, t), t).allowed

\* The table never outgrows its bound (_evict).
TableBounded == Len(table) <= MaxKeys

\* A live counter is given up only when no stale one was left to drop.
LiveEvictedLast ==
    [][forgot' # forgot => \A i \in DOMAIN table : ~Stale(table[i], now)]_vars
=============================================================================
