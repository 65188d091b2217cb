------------------------------ MODULE Caching ------------------------------
(***************************************************************************)
(* The in-memory cache and the cached decorator (cache.py): callers of a   *)
(* cached function, a bounded table with expiry, and an application that   *)
(* changes what the function reads and then deletes the key.  A value is   *)
(* the version of the data it was computed from.                           *)
(***************************************************************************)
EXTENDS Integers, Sequences, FiniteSets, SequencesExt

CONSTANTS Callers, Keys, MaxEntries, Ttl, MaxNow

\* What the constants have to satisfy; 0 is no key.
CachingAssumption == MaxEntries \in Nat \ {0} /\ Ttl \in Nat \ {0} /\ 0 \notin Keys

VARIABLES entries,   \* the table, oldest first: key, value and expiry
          version,   \* version[k] of the data behind a key
          deleted,   \* deleted[k]: the version the last delete was for
          calls,     \* calls[c]: what the caller is doing
          now

vars == <<entries, version, deleted, calls, now>>

Waiting == [key |-> 0, value |-> 0]

Init ==
    /\ entries = <<>> /\ version = [k \in Keys |-> 1] /\ deleted = [k \in Keys |-> 0]
    /\ calls = [c \in Callers |-> Waiting] /\ now = 0

Of(k) == {i \in DOMAIN entries : entries[i].key = k}
Without(k) == IF Of(k) = {} THEN entries ELSE RemoveAt(entries, CHOOSE i \in Of(k) : TRUE)

expired(e) == e.expires <= now

\* The entries that have not expired, in order.
Unexpired(es) ==
    LET of[i \in 0 .. Len(es)] ==
          IF i = 0 THEN <<>> ELSE IF expired(es[i]) THEN of[i - 1] ELSE Append(of[i - 1], es[i])
    IN of[Len(es)]

EvictExpiredOnly(es) == Unexpired(es)

(* _evict: everything expired, then the oldest if there is still no room.  *)
evict(es) == IF Len(Unexpired(es)) >= MaxEntries THEN Tail(Unexpired(es)) ELSE Unexpired(es)

\* What is stored, and how long it may be served.
Entry(k, v) == [key |-> k, value |-> v, expires |-> now + Ttl, born |-> now]

set(k, v) ==
    IF Of(k) # {} THEN [i \in DOMAIN entries |-> IF i \in Of(k) THEN Entry(k, v) ELSE entries[i]]
    ELSE Append(IF Len(entries) >= MaxEntries THEN evict(entries) ELSE entries, Entry(k, v))

(* The wrapper: a hit is answered at once; a miss calls the function,      *)
(* which reads the data and awaits.                                        *)
Call(c, k) ==
    /\ calls[c] = Waiting
    /\ IF \E i \in Of(k) : ~expired(entries[i])
       THEN UNCHANGED <<entries, calls>>
       ELSE /\ entries' = Without(k)
            /\ calls' = [calls EXCEPT ![c] = [key |-> k, value |-> version[k]]]
    /\ UNCHANGED <<version, deleted, now>>

Computed(c) ==
    /\ calls[c] # Waiting
    /\ entries' = set(calls[c].key, calls[c].value)
    /\ calls' = [calls EXCEPT ![c] = Waiting]
    /\ UNCHANGED <<version, deleted, now>>

(* The data changes and the key is deleted.                                *)
Invalidate(k) ==
    /\ version[k] < 2
    /\ version' = [version EXCEPT ![k] = @ + 1]
    /\ entries' = Without(k)
    /\ deleted' = [deleted EXCEPT ![k] = version[k]]
    /\ UNCHANGED <<calls, now>>

Tick == now < MaxNow /\ now' = now + 1 /\ UNCHANGED <<entries, version, deleted, calls>>

Next ==
    \/ \E c \in Callers, k \in Keys : Call(c, k)
    \/ \E c \in Callers : Computed(c)
    \/ \E k \in Keys : Invalidate(k)
    \/ Tick

Spec == Init /\ [][Next]_vars

-----------------------------------------------------------------------------
Servable == {e \in Range(entries) : ~expired(e)}

(* The table never outgrows max_entries, holds a key once, and serves no   *)
(* value for longer than its ttl, whatever calls overlap.                  *)
CacheKeepsItsBounds ==
    /\ Len(entries) <= MaxEntries
    /\ IsInjective([i \in DOMAIN entries |-> entries[i].key])
    /\ \A e \in Servable : now - e.born < Ttl

(* After delete() no value computed before it is served: a caller that was *)
(* computing when the key was deleted puts the old value back.             *)
DeleteIsFinal == \A e \in Servable : e.value > deleted[e.key]
=============================================================================
