-------------------------- MODULE MCServicesProofs --------------------------
(***************************************************************************)
(* Proofs about the services: the budget several processes share in Redis, *)
(* the supervisor's breaker, the reloader, calls over MCP stdio, the test  *)
(* clients and the live server, signals, the cache, event streams and the  *)
(* fan-out to subscriptions, for every value of their constants.  Each     *)
(* part proves that a step of one service keeps its invariant; the last    *)
(* one puts them together.                                                 *)
(***************************************************************************)
EXTENDS MCServices, FiniteSetTheorems, SequenceTheorems, TLAPS

-----------------------------------------------------------------------------
(* What several of the proofs need of sets and sequences.                   *)

\* Induction over the naturals, for a set: the successor maps what S has
\* of 0 .. x into itself one to one, so onto, but 0 is no successor.
LEMMA SetInduction ==
    ASSUME NEW S, 0 \in S, \A n \in Nat : n \in S => n + 1 \in S
    PROVE  \A n \in Nat : n \in S
<1>. SUFFICES ASSUME NEW x \in Nat, x \notin S PROVE FALSE
  OBVIOUS
<1>. DEFINE A == {n \in 0 .. x : n \in S}
            f == [n \in A |-> n + 1]
<1>1. A \subseteq 0 .. x /\ 0 \in A /\ \A n \in A : n \in Nat /\ n # x /\ n + 1 \in A
  OBVIOUS
<1>. HIDE DEF A
<1>2. IsFiniteSet(A)
  <2>1. IsFiniteSet(0 .. x)
    BY FS_Interval
  <2>2. A \in SUBSET (0 .. x)
    BY <1>1
  <2>. QED BY <2>1, <2>2, FS_Subset
<1>3. f \in [A -> A] /\ \A m, n \in A : f[m] = f[n] => m = n
  <2>1. \A n \in A : f[n] = n + 1
    OBVIOUS
  <2>. QED BY <1>1, <2>1
<1>4. f \in Injection(A, A)
  BY <1>3, Zenon DEF Injection, IsInjective
<1>. HIDE DEF f
<1>5. f \in Surjection(A, A)
  BY <1>2, <1>4, FS_Injection
<1>6. PICK n \in A : f[n] = 0
  BY <1>1, <1>5 DEF Surjection
<1>7. f[n] = n + 1
  BY DEF f
<1>. QED BY <1>1, <1>6, <1>7

\* A sequence with one element more.
LEMMA Appended ==
    ASSUME NEW S, NEW s \in Seq(S), NEW e \in S
    PROVE  \E r \in Seq(S) : /\ r = Append(s, e) /\ Len(r) = Len(s) + 1 /\ Len(s) \in Nat
                             /\ DOMAIN r = 1 .. Len(s) + 1 /\ DOMAIN s = 1 .. Len(s)
                             /\ r[Len(s) + 1] = e /\ \A j \in 1 .. Len(s) : r[j] = s[j]
<1>1. /\ Append(s, e) \in Seq(S) /\ Len(Append(s, e)) = Len(s) + 1
      /\ Append(s, e)[Len(s) + 1] = e /\ \A j \in 1 .. Len(s) : Append(s, e)[j] = s[j]
    BY AppendProperties
<1>2. Len(s) \in Nat /\ DOMAIN s = 1 .. Len(s)
    BY LenProperties
<1>3. DOMAIN Append(s, e) = 1 .. Len(s) + 1
    BY <1>1, LenProperties
<1> QED
    BY <1>1, <1>2, <1>3, Zenon

\* A sequence with one element removed, as RemoveAt says.
Gone(s, i) == SubSeq(s, 1, i - 1) \o SubSeq(s, i + 1, Len(s))

\* ... holds the others, one place further on from there.
LEMMA RemovedAt ==
    ASSUME NEW S, NEW s \in Seq(S), NEW i \in 1 .. Len(s)
    PROVE  /\ Gone(s, i) \in Seq(S) /\ Len(Gone(s, i)) = Len(s) - 1 /\ Len(s) \in Nat
           /\ DOMAIN Gone(s, i) = 1 .. Len(s) - 1 /\ DOMAIN s = 1 .. Len(s)
           /\ \A j \in 1 .. i - 1 : Gone(s, i)[j] = s[j]
           /\ \A j \in i .. Len(s) - 1 : Gone(s, i)[j] = s[j + 1]
<1> DEFINE a == SubSeq(s, 1, i - 1)
           b == SubSeq(s, i + 1, Len(s))
<1>0. Len(s) \in Nat /\ i \in Nat /\ i <= Len(s) /\ i >= 1
    BY LenProperties
<1>1. a \in Seq(S) /\ Len(a) = i - 1 /\ \A j \in 1 .. i - 1 : a[j] = s[j]
    <2>1. \A j \in 1 .. i - 1 : s[j] \in S
        BY <1>0, ElementOfSeq
    <2>2. 1 \in Int /\ i - 1 \in Int /\ (IF 1 <= i - 1 THEN i - 1 - 1 + 1 ELSE 0) = i - 1
          /\ i - 1 - 1 + 1 = i - 1 /\ \A j \in 1 .. i - 1 : 1 + j - 1 = j
        BY <1>0
    <2> QED
        BY <2>1, <2>2, SubSeqProperties
<1>2. b \in Seq(S) /\ Len(b) = Len(s) - i /\ \A j \in 1 .. Len(s) - i : b[j] = s[i + j]
    <2>1. \A j \in i + 1 .. Len(s) : s[j] \in S
        <3>1. \A j \in i + 1 .. Len(s) : j \in 1 .. Len(s)
            BY <1>0
        <3> QED
            BY <3>1, ElementOfSeq
    <2>2. i + 1 \in Int /\ Len(s) \in Int
        BY <1>0
    <2>3. /\ b \in Seq(S) /\ Len(b) = IF i + 1 <= Len(s) THEN Len(s) - (i + 1) + 1 ELSE 0
          /\ \A j \in 1 .. Len(s) - (i + 1) + 1 : b[j] = s[i + 1 + j - 1]
        BY <2>1, <2>2, SubSeqProperties
    <2> HIDE DEF b
    <2>4. Len(b) = Len(s) - i
        BY <1>0, <2>3
    <2>5. ASSUME NEW j \in 1 .. Len(s) - i PROVE b[j] = s[i + j]
        <3>1. j \in 1 .. Len(s) - (i + 1) + 1 /\ i + 1 + j - 1 = i + j
            BY <1>0
        <3>2. b[j] = s[i + 1 + j - 1]
            BY <2>3, <3>1
        <3> QED
            BY <3>1, <3>2
    <2> QED
        BY <2>3, <2>4, <2>5
<1> HIDE DEF a, b
<1>3. /\ a \o b \in Seq(S) /\ Len(a \o b) = Len(a) + Len(b)
      /\ \A j \in 1 .. Len(a) + Len(b) : (a \o b)[j] = IF j <= Len(a) THEN a[j] ELSE b[j - Len(a)]
    BY <1>1, <1>2, ConcatProperties
<1>4. PICK r : r = a \o b
    OBVIOUS
<1>5. r \in Seq(S) /\ Len(r) = Len(s) - 1 /\ Len(r) \in Nat
      /\ \A j \in 1 .. Len(s) - 1 : r[j] = IF j <= i - 1 THEN a[j] ELSE b[j - (i - 1)]
    <2>1. Len(a) + Len(b) = Len(s) - 1 /\ Len(s) - 1 \in Nat
        BY <1>0, <1>1, <1>2
    <2>2. r \in Seq(S) /\ Len(r) = Len(s) - 1 /\ Len(a) = i - 1
        BY <1>1, <1>3, <1>4, <2>1
    <2> QED
        BY <1>3, <1>4, <2>1, <2>2
<1>6. ASSUME NEW j \in 1 .. i - 1 PROVE r[j] = s[j]
    <2>1. j \in 1 .. Len(s) - 1 /\ j <= i - 1
        BY <1>0
    <2> QED
        BY <1>1, <1>5, <2>1
<1>7. ASSUME NEW j \in i .. Len(s) - 1 PROVE r[j] = s[j + 1]
    <2>1. j \in 1 .. Len(s) - 1 /\ ~(j <= i - 1) /\ j - (i - 1) \in 1 .. Len(s) - i
          /\ i + (j - (i - 1)) = j + 1
        BY <1>0
    <2> QED
        BY <1>2, <1>5, <2>1
<1>8. Gone(s, i) = r
    BY <1>4 DEF a, b, Gone
<1>9. DOMAIN r = 1 .. Len(s) - 1 /\ DOMAIN s = 1 .. Len(s)
    BY <1>5, LenProperties
<1> QED
    BY <1>0, <1>5, <1>6, <1>7, <1>8, <1>9

-----------------------------------------------------------------------------
(* Counters shared in Redis: scripting, loaded, count, version, wk, calls,  *)
(* admitted and fellback are s1 to s8.                                      *)

RedisInv == Redis!TypeOK /\ Redis!ReadsStandFast

\* One worker moves on without writing, to a place where what it has read is
\* still right, or the last retry is spent.
LEMMA RedisMoves ==
    ASSUME RedisInv, NEW w \in RedisWorkers, NEW x \in Redis!Worker, s5' = [s5 EXCEPT ![w] = x],
           UNCHANGED <<s1, s3, s4, s7>>, s2' \in BOOLEAN, s6' \in Nat, s8' \in BOOLEAN, s8 => s8',
           s8' \/ /\ x.pc \notin {"last get", "set"} /\ x.watched <= s4
                  /\ x.pc = "exec" /\ x.watched = s4 => x.seen = s3
    PROVE  RedisInv'
<1>1. /\ s5' \in [RedisWorkers -> Redis!Worker] /\ s5'[w] = x
      /\ \A v \in RedisWorkers : v # w => s5'[v] = s5[v]
    BY DEF RedisInv, Redis!TypeOK
<1>2. Redis!TypeOK'
    BY <1>1 DEF RedisInv, Redis!TypeOK
<1>3. Redis!ReadsStandFast'
    BY <1>1 DEF RedisInv, Redis!ReadsStandFast
<1> QED
    BY <1>2, <1>3 DEF RedisInv

\* An evaluation ends with a write over the value it has read.
LEMMA RedisWrites ==
    ASSUME RedisInv, NEW w \in RedisWorkers, NEW seen \in Nat, Redis!Ends(w, seen),
           s8 \/ seen = s3, UNCHANGED <<s1, s2, s6, s8>>
    PROVE  RedisInv'
<1>1. Budget \in Nat
    BY ServicesAssumption DEF Redis!RedisAssumption
<1>2. PICK y \in Redis!Worker : y = s5[w]
    BY DEF RedisInv, Redis!TypeOK
<1>3. PICK x : x = [y EXCEPT !.pc = "idle", !.again = FALSE, !.tries = 0]
    OBVIOUS
<1>4. x \in Redis!Worker /\ x.pc = "idle" /\ x.watched = y.watched
    BY <1>3 DEF Redis!Worker
<1>5. s5' = [s5 EXCEPT ![w] = x]
    BY <1>2, <1>3 DEF Redis!Ends, RedisInv, Redis!TypeOK
<1>6. /\ s5' \in [RedisWorkers -> Redis!Worker] /\ s5'[w] = x
      /\ \A v \in RedisWorkers : v # w => s5'[v] = s5[v]
    BY <1>4, <1>5 DEF RedisInv, Redis!TypeOK
<1>7. /\ s3' = IF seen < Budget THEN seen + 1 ELSE seen
      /\ s4' = s4 + 1 /\ s7' = IF seen < Budget THEN s7 + 1 ELSE s7
    BY DEF Redis!Ends, Redis!Written
<1>8. s3' \in Nat /\ s4' \in Nat /\ s7' \in Nat
    BY <1>1, <1>7 DEF RedisInv, Redis!TypeOK
<1>9. Redis!TypeOK'
    BY <1>6, <1>8 DEF RedisInv, Redis!TypeOK
<1>10. Redis!ReadsStandFast'
    <2>1. CASE s8
        BY <2>1 DEF Redis!ReadsStandFast
    <2>2. CASE ~s8
        <3>1. s3' = s7' /\ s3' <= Budget
            <4>1. s7 = s3 /\ s3 <= Budget /\ seen = s3
                BY <2>2 DEF RedisInv, Redis!ReadsStandFast
            <4>2. s3 \in Nat
                BY DEF RedisInv, Redis!TypeOK
            <4> QED
                BY <1>1, <1>7, <4>1, <4>2
        <3>2. ASSUME NEW v \in RedisWorkers
              PROVE  /\ s5'[v].pc \notin {"last get", "set"}
                     /\ s5'[v].watched < s4'
            <4>1. s5[v].watched <= s4 /\ s5[v].pc \notin {"last get", "set"}
                BY <2>2 DEF RedisInv, Redis!ReadsStandFast
            <4>2. s5[v].watched \in Nat /\ s4 \in Nat
                BY DEF RedisInv, Redis!TypeOK, Redis!Worker
            <4>3. s5'[v].pc \in {"idle", s5[v].pc} /\ s5'[v].watched = s5[v].watched
                BY <1>2, <1>4, <1>6
            <4>4. s5'[v].pc \notin {"last get", "set"}
                BY <4>1, <4>3
            <4>5. PICK n \in Nat : n = s5[v].watched
                BY <4>2
            <4>6. n <= s4
                BY <4>1, <4>5
            <4>7. n < s4'
                BY <1>7, <4>2, <4>6
            <4> QED
                BY <4>3, <4>4, <4>5, <4>7
        <3>3. ASSUME NEW v \in RedisWorkers
              PROVE  s5'[v].watched <= s4' /\ s5'[v].watched # s4'
            <4>1. PICK n \in Nat : n = s5'[v].watched
                BY <1>6 DEF Redis!Worker
            <4>2. n < s4'
                BY <3>2, <4>1
            <4>3. n <= s4' /\ n # s4'
                BY <1>8, <4>2
            <4> QED
                BY <4>1, <4>3
        <3> QED
            BY <3>1, <3>2, <3>3 DEF Redis!ReadsStandFast
    <2> QED
        BY <2>1, <2>2
<1> QED
    BY <1>9, <1>10 DEF RedisInv

\* Every round trip, timeout and fail-over step of a worker keeps the Redis invariant.
LEMMA RedisStep == RedisInv /\ Redis!Next => RedisInv'
<1>1. SUFFICES ASSUME RedisInv, Redis!Next PROVE RedisInv'
    OBVIOUS
<1>2. /\ s1 \in BOOLEAN /\ s2 \in BOOLEAN /\ s8 \in BOOLEAN /\ s3 \in Nat /\ s4 \in Nat /\ s6 \in Nat
      /\ s5 \in [RedisWorkers -> Redis!Worker]
    BY <1>1 DEF RedisInv, Redis!TypeOK
<1>3. ASSUME NEW w \in RedisWorkers
      PROVE  s8 \/ /\ s5[w].pc \notin {"last get", "set"} /\ s5[w].watched <= s4
                   /\ s5[w].pc = "exec" /\ s5[w].watched = s4 => s5[w].seen = s3
    BY <1>1 DEF RedisInv, Redis!ReadsStandFast
<1>4. ASSUME NEW w \in RedisWorkers, Redis!evaluate(w) PROVE RedisInv'
    <2>1. PICK y \in Redis!Worker : y = s5[w]
        BY <1>2
    <2>2. PICK p : p = IF y.plain THEN "watch" ELSE IF y.digest THEN "evalsha" ELSE "load"
        OBVIOUS
    <2>3. PICK x : x = [y EXCEPT !.pc = p]
        OBVIOUS
    <2>4. x \in Redis!Worker /\ x.pc = p /\ x.watched = y.watched
        BY <2>2, <2>3 DEF Redis!Worker
    <2>5. s5' = [s5 EXCEPT ![w] = x]
        BY <1>2, <1>4, <2>1, <2>2, <2>3 DEF Redis!evaluate, Redis!Goes
    <2>6. UNCHANGED <<s1, s2, s3, s4, s7, s8>> /\ s6' \in Nat
        BY <1>2, <1>4 DEF Redis!evaluate
    <2>7. p \notin {"last get", "set", "exec"}
        BY <2>2
    <2> QED
        BY <1>1, <1>2, <1>3, <2>1, <2>4, <2>5, <2>6, <2>7, RedisMoves
<1>5. ASSUME NEW w \in RedisWorkers, Redis!script_load(w) PROVE RedisInv'
    <2>1. PICK y \in Redis!Worker : y = s5[w]
        BY <1>2
    <2>2. PICK x \in Redis!Worker : /\ s5' = [s5 EXCEPT ![w] = x] /\ x.watched = y.watched
                                    /\ x.pc \in {"evalsha", "watch"}
        <3>1. CASE s1
            <4>1. PICK x : x = [y EXCEPT !.pc = "evalsha", !.digest = TRUE]
                OBVIOUS
            <4>2. x \in Redis!Worker /\ x.watched = y.watched /\ x.pc = "evalsha"
                BY <4>1 DEF Redis!Worker
            <4>3. s5' = [s5 EXCEPT ![w] = x]
                BY <1>2, <1>5, <2>1, <3>1, <4>1 DEF Redis!script_load
            <4> QED
                BY <4>2, <4>3
        <3>2. CASE ~s1
            <4>1. PICK x : x = [y EXCEPT !.pc = "watch", !.plain = TRUE]
                OBVIOUS
            <4>2. x \in Redis!Worker /\ x.watched = y.watched /\ x.pc = "watch"
                BY <4>1 DEF Redis!Worker
            <4>3. s5' = [s5 EXCEPT ![w] = x]
                BY <1>2, <1>5, <2>1, <3>2, <4>1 DEF Redis!script_load
            <4> QED
                BY <4>2, <4>3
        <3> QED
            BY <3>1, <3>2
    <2>3. UNCHANGED <<s1, s3, s4, s6, s7, s8>> /\ s2' \in BOOLEAN
        BY <1>2, <1>5 DEF Redis!script_load
    <2> QED
        BY <1>1, <1>2, <1>3, <2>1, <2>2, <2>3, RedisMoves
<1>6. ASSUME NEW w \in RedisWorkers, Redis!_evaluate_lua(w) PROVE RedisInv'
    <2>1. CASE s2
        BY <1>1, <1>2, <1>6, <2>1, RedisWrites DEF Redis!_evaluate_lua
    <2>2. CASE ~s2
        <3>1. PICK y \in Redis!Worker : y = s5[w]
            BY <1>2
        <3>2. PICK p : p = IF y.again THEN "idle" ELSE "load"
            OBVIOUS
        <3> DEFINE q == ~y.again
        <3>3. PICK x : x = [y EXCEPT !.pc = p, !.again = q]
            OBVIOUS
        <3>4. x \in Redis!Worker /\ x.pc = p /\ x.watched = y.watched
            BY <3>2, <3>3 DEF Redis!Worker
        <3>5. s5' = [s5 EXCEPT ![w] = x]
            BY <1>2, <1>6, <2>2, <3>1, <3>2, <3>3 DEF Redis!_evaluate_lua
        <3>6. UNCHANGED <<s1, s2, s3, s4, s6, s7, s8>>
            BY <1>6, <2>2 DEF Redis!_evaluate_lua
        <3>7. p \notin {"last get", "set", "exec"}
            BY <3>2
        <3> QED
            BY <1>1, <1>2, <1>3, <3>1, <3>4, <3>5, <3>6, <3>7, RedisMoves
    <2> QED
        BY <2>1, <2>2
<1>7. ASSUME NEW w \in RedisWorkers, Redis!Watch(w) PROVE RedisInv'
    <2>1. PICK y \in Redis!Worker : y = s5[w]
        BY <1>2
    <2>2. PICK x : x = [y EXCEPT !.pc = "get", !.watched = s4]
        OBVIOUS
    <2>3. x \in Redis!Worker /\ x.pc = "get" /\ x.watched = s4
        BY <1>2, <2>2 DEF Redis!Worker
    <2>4. s5' = [s5 EXCEPT ![w] = x]
        BY <1>2, <1>7, <2>1, <2>2 DEF Redis!Watch
    <2>5. UNCHANGED <<s1, s2, s3, s4, s6, s7, s8>> /\ x.watched <= s4
        BY <1>2, <1>7, <2>3 DEF Redis!Watch
    <2> QED
        BY <1>1, <1>2, <2>3, <2>4, <2>5, RedisMoves
<1>8. ASSUME NEW w \in RedisWorkers, Redis!Get(w) PROVE RedisInv'
    <2>1. PICK y \in Redis!Worker : y = s5[w]
        BY <1>2
    <2>2. PICK p : p = IF y.pc = "get" THEN "exec" ELSE "set"
        OBVIOUS
    <2>3. PICK x : x = [y EXCEPT !.pc = p, !.seen = s3]
        OBVIOUS
    <2>4. x \in Redis!Worker /\ x.pc = p /\ x.watched = y.watched /\ x.seen = s3
        BY <1>2, <2>2, <2>3 DEF Redis!Worker
    <2>5. s5' = [s5 EXCEPT ![w] = x]
        BY <1>2, <1>8, <2>1, <2>2, <2>3 DEF Redis!Get
    <2>6. UNCHANGED <<s1, s2, s3, s4, s6, s7, s8>>
        BY <1>8 DEF Redis!Get
    <2>7. s8 \/ p = "exec"
        BY <1>3, <1>8, <2>1, <2>2 DEF Redis!Get
    <2>8. s8 \/ x.watched <= s4
        BY <1>3, <2>1, <2>4
    <2> QED
        BY <1>1, <1>2, <2>4, <2>5, <2>6, <2>7, <2>8, RedisMoves
<1>9. ASSUME NEW w \in RedisWorkers, Redis!Exec(w) PROVE RedisInv'
    <2>1. PICK y \in Redis!Worker : y = s5[w]
        BY <1>2
    <2>2. CASE y.watched = s4
        <3>1. y.seen \in Nat
            BY DEF Redis!Worker
        <3>2. s8 \/ y.seen = s3
            BY <1>3, <1>9, <2>1, <2>2 DEF Redis!Exec
        <3>3. Redis!Ends(w, y.seen) /\ UNCHANGED <<s1, s2, s6, s8>>
            BY <1>9, <2>1, <2>2 DEF Redis!Exec
        <3> QED
            BY <1>1, <3>1, <3>2, <3>3, RedisWrites
    <2>3. CASE y.watched # s4
        <3>1. PICK n \in Nat : n = y.tries + 1
            <4>1. y.tries \in Nat
                BY DEF Redis!Worker
            <4> QED
                BY <4>1
        <3>2. PICK p : p = IF n < WatchRetries THEN "watch" ELSE "last get"
            OBVIOUS
        <3>3. PICK x : x = [y EXCEPT !.tries = n, !.pc = p]
            OBVIOUS
        <3>4. x \in Redis!Worker /\ x.pc = p /\ x.watched = y.watched
            BY <3>2, <3>3 DEF Redis!Worker
        <3>5. s5' = [s5 EXCEPT ![w] = x]
            BY <1>2, <1>9, <2>1, <2>3, <3>1, <3>2, <3>3 DEF Redis!Exec
        <3>6. UNCHANGED <<s1, s2, s3, s4, s6, s7>> /\ s8' = (s8 \/ n >= WatchRetries)
            BY <1>9, <2>1, <2>3, <3>1 DEF Redis!Exec
        <3>7. s8' \/ p = "watch"
            <4>1. WatchRetries \in Nat
                BY ServicesAssumption DEF Redis!RedisAssumption
            <4>2. n < WatchRetries \/ n >= WatchRetries
                BY <4>1
            <4> QED
                BY <3>2, <3>6, <4>2
        <3>8. s8' \in BOOLEAN /\ (s8 => s8')
            BY <1>2, <3>6
        <3>9. s8' \/ x.watched <= s4
            BY <1>3, <2>1, <3>4, <3>8
        <3> QED
            BY <1>1, <1>2, <3>4, <3>5, <3>6, <3>7, <3>8, <3>9, RedisMoves
    <2> QED
        BY <2>2, <2>3
<1>10. ASSUME NEW w \in RedisWorkers, Redis!Fallback(w) PROVE RedisInv'
    <2>1. s8 /\ s5[w].seen \in Nat
        BY <1>2, <1>3, <1>10 DEF Redis!Fallback, Redis!Worker
    <2>2. Redis!Ends(w, s5[w].seen) /\ UNCHANGED <<s1, s2, s6, s8>>
        BY <1>10 DEF Redis!Fallback
    <2> QED
        BY <1>1, <2>1, <2>2, RedisWrites
<1>11. CASE Redis!ScriptsFlushed
    <2>1. UNCHANGED <<s1, s3, s4, s5, s6, s7, s8>> /\ s2' = FALSE
        BY <1>11 DEF Redis!ScriptsFlushed
    <2> QED
        BY <1>1, <2>1 DEF RedisInv, Redis!TypeOK, Redis!ReadsStandFast
<1> QED
    BY <1>1, <1>4, <1>5, <1>6, <1>7, <1>8, <1>9, <1>10, <1>11 DEF Redis!Next

\* The Redis invariant holds before the first request reaches a worker.
LEMMA RedisInit == Redis!Init => RedisInv
<1>1. SUFFICES ASSUME Redis!Init PROVE RedisInv
    OBVIOUS
<1>2. Redis!Fresh \in Redis!Worker /\ Redis!Fresh.pc = "idle" /\ Redis!Fresh.watched = 0
    BY DEF Redis!Fresh, Redis!Worker
<1>3. s5 \in [RedisWorkers -> Redis!Worker] /\ \A w \in RedisWorkers : s5[w] = Redis!Fresh
    BY <1>1, <1>2 DEF Redis!Init
<1>4. Redis!TypeOK
    BY <1>1, <1>3 DEF Redis!Init, Redis!TypeOK
<1>5. Budget \in Nat
    BY ServicesAssumption DEF Redis!RedisAssumption
<1>6. Redis!ReadsStandFast
    <2>1. s3 = 0 /\ s4 = 0 /\ s7 = 0
        BY <1>1 DEF Redis!Init
    <2>2. \A w \in RedisWorkers : s5[w].pc = "idle" /\ s5[w].watched = 0
        BY <1>2, <1>3
    <2>3. s7 = s3 /\ s3 <= Budget /\ 0 <= s4
        BY <1>5, <2>1
    <2> QED
        BY <2>2, <2>3 DEF Redis!ReadsStandFast
<1> QED
    BY <1>4, <1>6 DEF RedisInv

-----------------------------------------------------------------------------
(* The supervisor: now, state, started, failures, windowStart, delay,       *)
(* wakeAt, ends and restarts are s1 to s9.                                  *)

SupTypes ==
    /\ s1 \in Nat /\ s3 \in Nat /\ s5 \in Nat /\ s4 \in Nat
    /\ s3 <= s1 /\ s5 <= s1
    /\ s8 \in Seq(Nat) /\ s9 \in Seq(Nat)

SupInv == SupTypes /\ Sup!InTurn /\ Sup!CountedInWindow /\ Sup!RestartsBounded

\* The settings.
LEMMA SupSettings == MaxRestarts \in Nat /\ RestartWindow \in Nat
BY ServicesAssumption DEF Sup!SupervisorAssumption

\* new is the history old, of n times, with the time t added.
Longer(old, t, new, n) ==
    /\ n = Len(old) /\ DOMAIN old = 1 .. n
    /\ new \in Seq(Nat) /\ Len(new) = n + 1 /\ DOMAIN new = 1 .. n + 1 /\ new[n + 1] = t
    /\ \A j \in 1 .. n : new[j] = old[j] /\ old[j] \in Nat

\* A time is added to a history.
LEMMA TimeAppended ==
    ASSUME NEW old \in Seq(Nat), NEW t \in Nat
    PROVE  \E n \in Nat : Longer(old, t, Append(old, t), n)
<1>1. PICK n \in Nat : n = Len(old) /\ DOMAIN old = 1 .. n
    BY LenProperties
<1>2. PICK new : new = Append(old, t)
    OBVIOUS
<1>3. /\ new \in Seq(Nat) /\ Len(new) = n + 1 /\ new[n + 1] = t
      /\ \A j \in 1 .. n : new[j] = old[j]
    BY <1>1, <1>2, AppendProperties
<1>4. DOMAIN new = 1 .. n + 1
    BY <1>3, LenProperties
<1>5. \A j \in 1 .. n : old[j] \in Nat
    BY <1>1, ElementOfSeq
<1>6. Longer(old, t, new, n)
    BY <1>1, <1>3, <1>4, <1>5 DEF Longer
<1> QED
    BY <1>2, <1>6

\* The window, spelled out.
LEMMA WindowIs ==
    ASSUME SupInv
    PROVE  /\ Len(s8) - s4 >= 0
           /\ s2 \in {"running", "sleeping"} => s4 <= MaxRestarts
           /\ s2 = "gaveup" => s4 = MaxRestarts + 1
           /\ s4 > 0 => s8[Len(s8) - s4 + 1] >= s5 /\ s8[Len(s8)] - s5 < RestartWindow
           /\ \A j \in 1 .. Len(s8) - s4 : s8[j] <= s5
           /\ MaxRestarts > 0 => \A j \in 1 .. Len(s8) - s4 - MaxRestarts : s5 - s8[j] >= RestartWindow
           /\ s4 = 0 /\ Len(s8) >= 2 => s8[Len(s8)] - s9[Len(s8) - 1] >= RestartWindow
BY DEF SupInv, Sup!CountedInWindow

\* A run ends.
LEMMA RunEndsStep ==
    ASSUME SupInv, Sup!RunEnds
    PROVE  SupInv'
<1>1. PICK M \in Nat, W \in Nat : M = MaxRestarts /\ W = RestartWindow
    BY SupSettings
<1>2. PICK now \in Nat, began \in Nat, k \in Nat, ws \in Nat : now = s1 /\ began = s3 /\ k = s4 /\ ws = s5
    BY DEF SupInv, SupTypes
<1>3. PICK e \in Seq(Nat), r \in Seq(Nat) : e = s8 /\ r = s9
    BY DEF SupInv, SupTypes
<1>4. PICK n \in Nat, f \in {Append(e, now)} : Longer(e, now, f, n)
    BY TimeAppended
<1>5. f = Append(e, now) /\ n = Len(e) /\ DOMAIN e = 1 .. n
    BY <1>4 DEF Longer
<1>6. /\ f \in Seq(Nat) /\ Len(f) = n + 1 /\ DOMAIN f = 1 .. n + 1 /\ f[n + 1] = now
      /\ \A j \in 1 .. n : f[j] = e[j] /\ e[j] \in Nat
    BY <1>4 DEF Longer
<1>7. s2 = "running" /\ s8' = f /\ s9' = r /\ s1' = now /\ s3' = began
    BY <1>2, <1>3, <1>5 DEF Sup!RunEnds
<1>8. began <= now /\ ws <= now /\ k <= M /\ k <= n
    BY <1>1, <1>2, <1>3, <1>5, <1>7, WindowIs DEF SupInv, SupTypes
<1>9. /\ Len(r) = n /\ \A j \in 1 .. n : e[j] <= began
      /\ n > 0 => r[n] = began
    <2>1. /\ Len(r) = Len(e) /\ \A j \in DOMAIN e : e[j] <= began
          /\ e # <<>> => r[Len(e)] = began
        BY <1>2, <1>3, <1>7 DEF SupInv, Sup!InTurn
    <2>2. n > 0 => e # <<>>
        BY <1>5, EmptySeq
    <2> QED
        BY <1>5, <2>1, <2>2
<1>10. DOMAIN r = 1 .. n
    BY <1>9, LenProperties
<1>11. \A j \in 1 .. n : r[j] \in Nat
    BY <1>10, ElementOfSeq, <1>9
<1>12. \A j \in 1 .. n : j + 1 \in 1 .. n => r[j] <= e[j + 1]
    BY <1>3, <1>5, <1>10 DEF SupInv, Sup!InTurn
<1>13. /\ k > 0 => e[n - k + 1] >= ws /\ e[n] - ws < W
       /\ \A j \in 1 .. n - k : e[j] <= ws
       /\ M > 0 => \A j \in 1 .. n - k - M : ws - e[j] >= W
    BY <1>1, <1>2, <1>3, <1>5, WindowIs
<1>14. PICK k2 \in Nat, ws2 \in Nat :
           /\ s4' = k2 /\ s5' = ws2
           /\ \/ now - began >= W /\ k2 = 0 /\ ws2 = now
              \/ ~(now - began >= W) /\ now - ws >= W /\ k2 = 1 /\ ws2 = now
              \/ ~(now - began >= W) /\ ~(now - ws >= W) /\ k2 = k + 1 /\ ws2 = ws
    <2>1. /\ s4' = IF now - began >= W THEN 0
                   ELSE (IF now - began >= W \/ now - ws >= W THEN 0 ELSE k) + 1
          /\ s5' = IF now - began >= W \/ now - ws >= W THEN now ELSE ws
        BY <1>1, <1>2 DEF Sup!RunEnds, Sup!Forgets, Sup!CleanRun
    <2>2. CASE now - began >= W
        BY <2>1, <2>2
    <2>3. CASE ~(now - began >= W) /\ now - ws >= W
        BY <2>1, <2>3
    <2>4. CASE ~(now - began >= W) /\ ~(now - ws >= W)
        BY <2>1, <2>4
    <2> QED
        BY <2>2, <2>3, <2>4
<1>15. s2' \in {"gaveup", "sleeping"} /\ (s2' = "gaveup" <=> k2 > M)
    <2>1. CASE now - began >= W
        <3>1. s2' = "sleeping"
            BY <1>1, <1>2, <2>1 DEF Sup!RunEnds, Sup!CleanRun
        <3>2. k2 = 0
            BY <1>14, <2>1
        <3> QED
            BY <3>1, <3>2
    <2>2. CASE ~(now - began >= W)
        BY <1>1, <1>2, <1>14, <2>2 DEF Sup!RunEnds, Sup!CleanRun, Sup!Trips
    <2> QED
        BY <2>1, <2>2
<1>20. \A j \in 1 .. n + 1 : f[j] <= now
    <2>1. TAKE j \in 1 .. n + 1
    <2>2. CASE j = n + 1
        BY <1>6, <2>2
    <2>3. CASE j # n + 1
        <3>1. j \in 1 .. n
            BY <2>3
        <3>2. f[j] \in Nat /\ f[j] <= began
            BY <1>6, <1>9, <3>1
        <3> QED
            BY <1>8, <3>2
    <2> QED
        BY <2>2, <2>3
<1>16. SupTypes'
    BY <1>6, <1>7, <1>8, <1>14 DEF SupTypes
<1>17. Sup!InTurn'
    <2>1. \A j \in 1 .. n + 1 : f[j] <= now
        BY <1>20
    <2>2. \A j \in 1 .. n : j + 1 \in 1 .. n + 1 => r[j] <= f[j + 1]
        <3>1. TAKE j \in 1 .. n
        <3>2. CASE j = n
            BY <1>6, <1>8, <1>9, <3>2
        <3>3. CASE j # n
            <4>1. j + 1 \in 1 .. n
                BY <3>3
            <4> QED
                BY <1>6, <1>12, <4>1
        <3> QED
            BY <3>2, <3>3
    <2>3. s2' # "running" /\ Len(f) = Len(r) + 1
        BY <1>6, <1>9, <1>15
    <2> QED
        BY <1>6, <1>7, <1>10, <2>1, <2>2, <2>3 DEF Sup!InTurn
<1>18. Sup!CountedInWindow'
    <2>1. n + 1 - k2 >= 0 /\ k2 <= M + 1
        BY <1>8, <1>14
    <2>2. k2 > 0 => f[n + 1 - k2 + 1] >= ws2 /\ f[n + 1] - ws2 < W
        <3>1. CASE k2 = 1 /\ ws2 = now /\ ~(now - began >= W)
            BY <1>6, <1>8, <3>1
        <3>2. CASE k2 = k + 1 /\ ws2 = ws /\ ~(now - ws >= W)
            <4>1. CASE k = 0
                BY <1>6, <1>8, <3>2, <4>1
            <4>2. CASE k > 0
                <5>1. n + 1 - k2 + 1 = n - k + 1 /\ n - k + 1 \in 1 .. n
                    BY <1>8, <3>2, <4>2
                <5>2. f[n + 1 - k2 + 1] >= ws2
                    BY <1>6, <1>13, <3>2, <4>2, <5>1
                <5>3. f[n + 1] - ws2 < W
                    BY <1>6, <1>8, <3>2
                <5> QED
                    BY <5>2, <5>3
            <4> QED
                BY <4>1, <4>2
        <3> QED
            BY <1>14, <3>1, <3>2
    <2>3. \A j \in 1 .. n + 1 - k2 : f[j] <= ws2
        <3>1. TAKE j \in 1 .. n + 1 - k2
        <3>2. CASE ws2 = now
            <4>1. j \in 1 .. n + 1
                OBVIOUS
            <4> QED
                BY <1>20, <3>2, <4>1
        <3>3. CASE k2 = k + 1 /\ ws2 = ws
            <4>1. j \in 1 .. n - k /\ j \in 1 .. n
                BY <3>3
            <4> QED
                BY <1>6, <1>13, <3>3, <4>1
        <3> QED
            BY <1>14, <3>2, <3>3
    <2>4. ASSUME M > 0, NEW j \in 1 .. n + 1 - k2 - M
          PROVE  ws2 - f[j] >= W
        <3>1. j \in 1 .. n
            BY <2>4
        <3>2. f[j] = e[j] /\ e[j] \in Nat /\ e[j] <= began
            BY <1>6, <1>9, <3>1
        <3>3. CASE now - began >= W /\ ws2 = now
            BY <3>2, <3>3
        <3>4. CASE now - ws >= W /\ k2 = 1 /\ ws2 = now
            <4>1. j \in 1 .. n - k
                BY <1>8, <3>4
            <4>2. e[j] <= ws
                BY <1>13, <4>1
            <4> QED
                BY <3>2, <3>4, <4>2
        <3>5. CASE k2 = k + 1 /\ ws2 = ws
            <4>1. j \in 1 .. n - k - M
                BY <3>5
            <4> QED
                BY <1>13, <2>4, <3>2, <3>5, <4>1
        <3> QED
            BY <1>14, <3>3, <3>4, <3>5
    <2>5. k2 = 0 /\ n + 1 >= 2 => f[n + 1] - r[n + 1 - 1] >= W
        <3>1. SUFFICES ASSUME k2 = 0, n >= 1 PROVE now - r[n] >= W
            BY <1>6
        <3> QED
            BY <1>9, <1>14, <3>1
    <2>6. s2' = "gaveup" => k2 = M + 1
        BY <1>15, <2>1
    <2>7. s2' \in {"running", "sleeping"} => k2 <= M
        BY <1>15
    <2> QED
        <3>1. /\ Len(f) - k2 >= 0
              /\ s2' \in {"running", "sleeping"} => k2 <= M
              /\ s2' = "gaveup" => k2 = M + 1
              /\ k2 > 0 => f[Len(f) - k2 + 1] >= ws2 /\ f[Len(f)] - ws2 < W
              /\ \A j \in 1 .. Len(f) - k2 : f[j] <= ws2
              /\ M > 0 => \A j \in 1 .. Len(f) - k2 - M : ws2 - f[j] >= W
              /\ k2 = 0 /\ Len(f) >= 2 => f[Len(f)] - r[Len(f) - 1] >= W
            BY <1>6, <2>1, <2>2, <2>3, <2>4, <2>5, <2>6, <2>7
        <3> QED
            BY <1>1, <1>7, <1>14, <3>1 DEF Sup!CountedInWindow
<1>19. Sup!RestartsBounded'
    BY <1>3, <1>7 DEF SupInv, Sup!RestartsBounded, Sup!Burst
<1> QED
    BY <1>16, <1>17, <1>18, <1>19 DEF SupInv

\* A run begins again.
LEMMA RestartStep ==
    ASSUME SupInv, Sup!Restart
    PROVE  SupInv'
<1>1. PICK M \in Nat, W \in Nat : M = MaxRestarts /\ W = RestartWindow
    BY SupSettings
<1>2. PICK now \in Nat, k \in Nat, ws \in Nat : now = s1 /\ k = s4 /\ ws = s5
    BY DEF SupInv, SupTypes
<1>3. PICK e \in Seq(Nat), r \in Seq(Nat) : e = s8 /\ r = s9
    BY DEF SupInv, SupTypes
<1>4. PICK m \in Nat, q \in {Append(r, now)} : Longer(r, now, q, m)
    BY TimeAppended
<1>5. q = Append(r, now) /\ m = Len(r) /\ DOMAIN r = 1 .. m
    BY <1>4 DEF Longer
<1>6. /\ q \in Seq(Nat) /\ Len(q) = m + 1 /\ DOMAIN q = 1 .. m + 1 /\ q[m + 1] = now
      /\ \A j \in 1 .. m : q[j] = r[j] /\ r[j] \in Nat
    BY <1>4 DEF Longer
<1>7. /\ s2 = "sleeping" /\ s2' = "running" /\ s8' = e /\ s9' = q /\ s1' = now /\ s3' = now
      /\ s4' = k /\ s5' = ws
    BY <1>2, <1>3, <1>5 DEF Sup!Restart
<1>8. PICK n \in Nat : n = Len(e) /\ n = m + 1 /\ DOMAIN e = 1 .. n
    BY <1>3, <1>5, <1>7, LenProperties DEF SupInv, Sup!InTurn
<1>9. \A j \in 1 .. n : e[j] \in Nat /\ e[j] <= now
    <2>1. \A j \in 1 .. n : e[j] \in Nat
        BY <1>8, ElementOfSeq
    <2> QED
        BY <1>2, <1>3, <1>8, <2>1 DEF SupInv, Sup!InTurn
<1>10. \A j \in 1 .. m : r[j] <= e[j + 1]
    <2>1. \A j \in DOMAIN r : j + 1 \in DOMAIN e => r[j] <= e[j + 1]
        BY <1>3 DEF SupInv, Sup!InTurn
    <2>2. \A j \in 1 .. m : j + 1 \in 1 .. n
        BY <1>8
    <2> QED
        BY <1>5, <1>8, <2>1, <2>2
<1>11. ws <= now /\ k <= M /\ k <= n
    BY <1>1, <1>2, <1>3, <1>7, <1>8, WindowIs DEF SupInv, SupTypes
<1>12. /\ M > 0 => \A j \in 1 .. n - k - M : ws - e[j] >= W
       /\ k = 0 /\ n >= 2 => e[n] - r[n - 1] >= W
    BY <1>1, <1>2, <1>3, <1>8, WindowIs
<1>13. SupTypes'
    BY <1>6, <1>7, <1>11 DEF SupTypes
<1>14. Sup!InTurn'
    <2>1. \A j \in 1 .. m + 1 : j + 1 \in 1 .. n => q[j] <= e[j + 1]
        BY <1>6, <1>8, <1>10
    <2>2. Len(q) = Len(e) /\ q[Len(e)] = now
        BY <1>6, <1>8
    <2> QED
        BY <1>6, <1>7, <1>8, <1>9, <2>1, <2>2 DEF Sup!InTurn
<1>15. Sup!CountedInWindow'
    <2>1. k = 0 /\ n >= 2 => e[n] - q[n - 1] >= W
        <3>1. n >= 2 => n - 1 \in 1 .. m
            BY <1>8
        <3> QED
            BY <1>6, <1>12, <3>1
    <2>2. /\ Len(e) - k >= 0
          /\ k > 0 => e[Len(e) - k + 1] >= ws /\ e[Len(e)] - ws < W
          /\ \A j \in 1 .. Len(e) - k : e[j] <= ws
          /\ M > 0 => \A j \in 1 .. Len(e) - k - M : ws - e[j] >= W
        BY <1>1, <1>2, <1>3, WindowIs
    <2> QED
        BY <1>1, <1>7, <1>8, <1>11, <2>1, <2>2 DEF Sup!CountedInWindow
<1>16. Sup!RestartsBounded'
    <2>1. SUFFICES ASSUME NEW i \in 1 .. m + 1, i >= 2 * M + 2
                   PROVE  q[i] - q[i - (2 * M + 2) + 1] >= W
        <3>1. ASSUME NEW i \in 1 .. m + 1, i >= 2 * M + 2
              PROVE  i - (2 * M + 2) + 1 \in 1 .. m
            BY <3>1
        <3>2. \A i \in 1 .. m + 1 : q[i] \in Nat
            BY <1>6
        <3> QED
            <4>1. SUFFICES ASSUME NEW i \in 1 .. m + 1, i >= 2 * M + 2, q[i] - q[i - (2 * M + 2) + 1] < W
                           PROVE  FALSE
                BY <1>1, <1>6, <1>7 DEF Sup!RestartsBounded, Sup!Burst
            <4>2. q[i] - q[i - (2 * M + 2) + 1] >= W
                BY <2>1, <4>1
            <4>3. i - (2 * M + 2) + 1 \in 1 .. m + 1
                BY <3>1, <4>1
            <4>4. q[i] \in Nat /\ q[i - (2 * M + 2) + 1] \in Nat
                BY <3>2, <4>3
            <4> QED
                BY <4>1, <4>2, <4>4
    <2>2. PICK h \in Int : h = i - (2 * M + 2) + 1
        BY <2>1
    <2>3. h \in 1 .. m /\ q[h] = r[h] /\ r[h] \in Nat
        <3>1. h \in 1 .. m
            BY <2>1, <2>2
        <3> QED
            BY <1>6, <3>1
    <2>6. SUFFICES q[i] - q[h] >= W
        BY <2>2
    <2>4. CASE i # m + 1
        <3>1. i \in 1 .. m
            BY <2>4
        <3>2. q[i] = r[i] /\ r[i] \in Nat
            BY <1>6, <3>1
        <3>3. ~(r[i] - r[i - (2 * M + 2) + 1] < W)
            BY <1>1, <1>3, <1>5, <2>1, <3>1 DEF SupInv, Sup!RestartsBounded, Sup!Burst
        <3>4. ~(r[i] - r[h] < W)
            BY <2>2, <3>3
        <3>5. PICK a \in Nat, c \in Nat : a = r[i] /\ c = r[h]
            BY <2>3, <3>2
        <3>6. a - c >= W
            BY <3>4, <3>5
        <3> QED
            BY <2>3, <3>2, <3>5, <3>6
    <2>5. CASE i = m + 1
        <3>1. q[i] = now
            BY <1>6, <2>5
        <3>2. CASE M > 0
            <4>1. PICK g \in Int : g = n - 2 * M
                OBVIOUS
            <4>2. g = h + 1 /\ g \in 1 .. n /\ g \in 1 .. n - k - M
                BY <1>8, <1>11, <2>1, <2>2, <2>3, <2>5, <3>2, <4>1
            <4>3. ws - e[g] >= W /\ e[g] \in Nat
                BY <1>9, <1>12, <3>2, <4>2
            <4>4. r[h] <= e[g]
                BY <1>10, <2>3, <4>2
            <4>5. PICK a \in Nat, c \in Nat : a = e[g] /\ c = r[h]
                BY <2>3, <4>3
            <4>6. ws - a >= W /\ c <= a
                BY <4>3, <4>4, <4>5
            <4>7. now - c >= W
                BY <1>11, <4>6
            <4> QED
                BY <2>3, <3>1, <4>5, <4>7
        <3>3. CASE M = 0
            <4>1. h = n - 1 /\ n >= 2 /\ k = 0
                BY <1>8, <1>11, <2>1, <2>2, <2>5, <3>3
            <4>2. e[n] - r[h] >= W /\ e[n] \in Nat /\ e[n] <= now
                BY <1>8, <1>9, <1>12, <4>1
            <4>3. PICK a \in Nat, c \in Nat : a = e[n] /\ c = r[h]
                BY <2>3, <4>2
            <4>5. a - c >= W /\ a <= now
                BY <4>2, <4>3
            <4>4. now - c >= W
                BY <4>5
            <4> QED
                BY <2>3, <3>1, <4>3, <4>4
        <3> QED
            BY <3>2, <3>3
    <2> QED
        BY <2>4, <2>5
<1> QED
    BY <1>13, <1>14, <1>15, <1>16 DEF SupInv

\* Every step of the supervisor keeps the invariant.
LEMMA SupStep ==
    ASSUME SupInv, Sup!Next
    PROVE  SupInv'
<1>1. CASE Sup!RunEnds
    BY <1>1, RunEndsStep
<1>2. CASE Sup!Restart
    BY <1>2, RestartStep
<1>3. CASE Sup!NotAwaitable \/ Sup!Cancel
    <2>1. UNCHANGED <<s1, s3, s4, s5, s8, s9>> /\ s2' \in {"failed", "cancelled"}
        BY <1>3 DEF Sup!NotAwaitable, Sup!Cancel
    <2>2. SupTypes' /\ Sup!RestartsBounded'
        BY <2>1 DEF SupInv, SupTypes, Sup!RestartsBounded, Sup!Burst
    <2>3. Sup!InTurn'
        BY <2>1 DEF SupInv, Sup!InTurn
    <2>4. Sup!CountedInWindow'
        BY <2>1, WindowIs DEF Sup!CountedInWindow
    <2> QED
        BY <2>2, <2>3, <2>4 DEF SupInv
<1>4. CASE Sup!Tick
    <2>1. UNCHANGED <<s2, s3, s4, s5, s8, s9>> /\ s1' = s1 + 1
        BY <1>4 DEF Sup!Tick
    <2>2. SupTypes'
        BY <2>1 DEF SupInv, SupTypes
    <2>3. Sup!RestartsBounded'
        BY <2>1 DEF SupInv, Sup!RestartsBounded, Sup!Burst
    <2>4. \A j \in DOMAIN s8 : s8[j] <= s1 + 1
        <3>1. \A j \in DOMAIN s8 : s8[j] \in Nat /\ s8[j] <= s1
            BY ElementOfSeq, LenProperties DEF SupInv, SupTypes, Sup!InTurn
        <3>2. s1 \in Nat
            BY DEF SupInv, SupTypes
        <3> QED
            BY <3>1, <3>2
    <2>5. Sup!InTurn'
        BY <2>1, <2>4 DEF SupInv, Sup!InTurn
    <2>6. Sup!CountedInWindow'
        BY <2>1 DEF SupInv, Sup!CountedInWindow
    <2> QED
        BY <2>2, <2>3, <2>5, <2>6 DEF SupInv
<1> QED
    BY <1>1, <1>2, <1>3, <1>4 DEF Sup!Next

\* The supervisor starts with its first run.
LEMMA SupInit == Sup!Init => SupInv
<1>1. SUFFICES ASSUME Sup!Init PROVE SupInv
    OBVIOUS
<1>2. s1 = 0 /\ s3 = 0 /\ s4 = 0 /\ s5 = 0 /\ s2 = "running" /\ s8 = <<>> /\ s9 = <<>>
    BY <1>1 DEF Sup!Init
<1>3. <<>> \in Seq(Nat) /\ Len(<<>>) = 0 /\ DOMAIN <<>> = {}
    OBVIOUS
<1>4. SupTypes
    BY <1>2, <1>3 DEF SupTypes
<1>5. Sup!InTurn
    BY <1>2, <1>3 DEF Sup!InTurn
<1>6. Sup!CountedInWindow
    BY <1>2, <1>3, SupSettings DEF Sup!CountedInWindow
<1>7. Sup!RestartsBounded
    BY <1>2, <1>3 DEF Sup!RestartsBounded, Sup!Burst
<1> QED
    BY <1>4, <1>5, <1>6, <1>7 DEF SupInv

\* The breaker and the bound on restarts.
LEMMA BreakerIsSound == SupInv => Sup!TripsOnTightLoopsOnly /\ Sup!RestartsBounded
<1>1. SUFFICES ASSUME SupInv, s2 = "gaveup"
               PROVE  Len(s8) > MaxRestarts /\ s8[Len(s8)] - s8[Len(s8) - MaxRestarts] < RestartWindow
    BY DEF SupInv, Sup!TripsOnTightLoopsOnly
<1>2. PICK M \in Nat, W \in Nat : M = MaxRestarts /\ W = RestartWindow
    BY SupSettings
<1>3. PICK e \in Seq(Nat), ws \in Nat : e = s8 /\ ws = s5
    BY <1>1 DEF SupInv, SupTypes
<1>4. PICK n \in Nat : n = Len(e) /\ DOMAIN e = 1 .. n
    BY LenProperties
<1>5. n - (M + 1) >= 0 /\ e[n - (M + 1) + 1] >= ws /\ e[n] - ws < W
    BY <1>1, <1>2, <1>3, <1>4, WindowIs
<1>6. n - (M + 1) + 1 = n - M /\ n - M \in 1 .. n /\ n \in 1 .. n
    BY <1>5
<1>7. e[n - M] \in Nat /\ e[n] \in Nat
    BY <1>4, <1>6, ElementOfSeq
<1>8. PICK a \in Nat, c \in Nat : a = e[n - M] /\ c = e[n]
    BY <1>7
<1>9. a >= ws /\ c - ws < W
    BY <1>5, <1>6, <1>8
<1>10. n > M /\ c - a < W
    BY <1>6, <1>9
<1> QED
    BY <1>2, <1>3, <1>4, <1>8, <1>10

-----------------------------------------------------------------------------
(* The reloader: disk, edits, sup, spawned, ptr, snap, baseline, first,     *)
(* editsSeen, proc and signals are s1 to s11.                               *)

LoadInv == Load!TypeOK /\ Load!LastAlive

Up == {"starting", "serving", "draining"}

\* Children are numbered.
LEMMA PidsAreInt ==
    ASSUME Load!TypeOK
    PROVE  Load!Pids \subseteq Int /\ s4 \in Int
<1>1. Load!Pids \subseteq Int
    BY DEF Load!Pids
<1>2. s4 \in 0 .. MaxSpawns
    BY DEF Load!TypeOK
<1> QED
    BY <1>1, <1>2

\* One child moves.
LEMMA ProcMoves ==
    ASSUME Load!TypeOK, NEW p \in Load!Pids, NEW c \in Load!Child, s10' = [s10 EXCEPT ![p] = c]
    PROVE  /\ s10' \in [Load!Pids -> Load!Child] /\ s10'[p] = c
           /\ \A q \in Load!Pids : q # p => s10'[q] = s10[q]
BY DEF Load!TypeOK

\* A child that moves by itself was alive, and imports files or goes on.
LEMMA ChildMoves ==
    ASSUME Load!TypeOK, NEW p \in Load!Pids, Load!ChildStep(p)
    PROVE  /\ UNCHANGED <<s1, s2, s3, s4, s5, s6, s7, s8, s9>> /\ Load!Alive(p)
           /\ \E c \in Load!Child :
                 /\ s10' = [s10 EXCEPT ![p] = c] /\ c.born = s10[p].born
                 /\ \/ /\ c.loaded = s10[p].loaded
                       /\ c.st \in Up => s10[p].st \in Up \/ \A f \in Files : c.loaded[f] # Load!Gone
                    \/ \E f \in Files :
                          /\ SlowBoot => ~(s3 = "bind" \/ (s3 = "walk" /\ s8))
                          /\ c.loaded = [s10[p].loaded EXCEPT ![f] = s1[f].version]
                          /\ c.st = "importing"
<1>1. PICK o \in Load!Child : o = s10[p]
    BY DEF Load!TypeOK
<1>2. CASE Load!Startup(p)
    <2>1. PICK c : c = [o EXCEPT !.st = "starting", !.hooks = "up"]
        OBVIOUS
    <2>2. c \in Load!Child /\ c.born = o.born /\ c.loaded = o.loaded /\ c.st = "starting"
        BY <2>1 DEF Load!Child
    <2>3. s10' = [s10 EXCEPT ![p] = c]
        BY <1>1, <1>2, <2>1 DEF Load!Startup
    <2>4. o.st = "importing" /\ \A f \in Files : o.loaded[f] # Load!Gone
        BY <1>1, <1>2 DEF Load!Startup
    <2>5. UNCHANGED <<s1, s2, s3, s4, s5, s6, s7, s8, s9>> /\ Load!Alive(p)
        BY <1>1, <1>2, <2>4 DEF Load!Startup, Load!watch, Load!Alive
    <2> QED
        BY <1>1, <2>2, <2>3, <2>4, <2>5
<1>3. CASE Load!Serve(p)
    <2>1. PICK c : c = [o EXCEPT !.st = "serving"]
        OBVIOUS
    <2>2. c \in Load!Child /\ c.born = o.born /\ c.loaded = o.loaded
        BY <2>1 DEF Load!Child
    <2>3. s10' = [s10 EXCEPT ![p] = c] /\ o.st = "starting"
        BY <1>1, <1>3, <2>1 DEF Load!Serve
    <2>4. UNCHANGED <<s1, s2, s3, s4, s5, s6, s7, s8, s9>> /\ Load!Alive(p) /\ o.st \in Up
        BY <1>1, <1>3, <2>3 DEF Load!Serve, Load!watch, Load!Alive, Up
    <2> QED
        BY <1>1, <2>2, <2>3, <2>4
<1>4. CASE Load!Drained(p)
    <2>1. PICK c : c = [o EXCEPT !.st = "ended", !.hooks = "down"]
        OBVIOUS
    <2>2. c \in Load!Child /\ c.born = o.born /\ c.loaded = o.loaded
        BY <2>1 DEF Load!Child
    <2>3. s10' = [s10 EXCEPT ![p] = c] /\ o.st = "draining"
        BY <1>1, <1>4, <2>1 DEF Load!Drained
    <2>4. UNCHANGED <<s1, s2, s3, s4, s5, s6, s7, s8, s9>> /\ Load!Alive(p) /\ o.st \in Up
        BY <1>1, <1>4, <2>3 DEF Load!Drained, Load!watch, Load!Alive, Up
    <2> QED
        BY <1>1, <2>2, <2>3, <2>4
<1>5. ASSUME NEW f \in Files, Load!Import(p, f)
      PROVE  /\ UNCHANGED <<s1, s2, s3, s4, s5, s6, s7, s8, s9>> /\ Load!Alive(p)
             /\ \E c \in Load!Child :
                 /\ s10' = [s10 EXCEPT ![p] = c] /\ c.born = s10[p].born
                 /\ \/ /\ c.loaded = s10[p].loaded
                       /\ c.st \in Up => s10[p].st \in Up \/ \A g \in Files : c.loaded[g] # Load!Gone
                    \/ \E g \in Files :
                          /\ SlowBoot => ~(s3 = "bind" \/ (s3 = "walk" /\ s8))
                          /\ c.loaded = [s10[p].loaded EXCEPT ![g] = s1[g].version]
                          /\ c.st = "importing"
    <2>1. o.st = "importing"
        BY <1>1, <1>5 DEF Load!Import
    <2>2. UNCHANGED <<s1, s2, s3, s4, s5, s6, s7, s8, s9>> /\ Load!Alive(p)
        BY <1>1, <1>5, <2>1 DEF Load!Import, Load!watch, Load!Alive
    <2>3. CASE s10' = [s10 EXCEPT ![p].st = "ended"]
        <3>1. PICK c : c = [o EXCEPT !.st = "ended"]
            OBVIOUS
        <3>2. c \in Load!Child /\ c.born = o.born /\ c.loaded = o.loaded /\ c.st = "ended"
            BY <3>1 DEF Load!Child
        <3>3. s10' = [s10 EXCEPT ![p] = c]
            BY <1>1, <2>3, <3>1
        <3>4. c.st \notin Up
            BY <3>2 DEF Up
        <3> QED
            BY <1>1, <2>2, <3>2, <3>3, <3>4
    <2>4. CASE s10' = [s10 EXCEPT ![p].loaded[f] = s1[f].version]
        <3>1. PICK l : l = [o.loaded EXCEPT ![f] = s1[f].version]
            OBVIOUS
        <3>2. s1[f].version \in Nat \cup {Load!Removed}
            BY DEF Load!TypeOK, Load!File
        <3>3. o.loaded \in [Files -> Nat \cup {Load!Gone, Load!Removed}]
            BY DEF Load!Child
        <3>4. l \in [Files -> Nat \cup {Load!Gone, Load!Removed}]
            BY <3>1, <3>2, <3>3
        <3>5. PICK c : c = [o EXCEPT !.loaded = l]
            OBVIOUS
        <3>6. c \in Load!Child /\ c.born = o.born /\ c.loaded = l /\ c.st = o.st
            BY <3>4, <3>5 DEF Load!Child
        <3>7. s10' = [s10 EXCEPT ![p] = c]
            BY <1>1, <2>4, <3>1, <3>5
        <3>8. SlowBoot => ~(s3 = "bind" \/ (s3 = "walk" /\ s8))
            BY <1>5 DEF Load!Import
        <3> QED
            BY <1>1, <2>1, <2>2, <3>1, <3>6, <3>7, <3>8
    <2> QED
        BY <1>5, <2>3, <2>4 DEF Load!Import
<1> QED
    BY <1>2, <1>3, <1>4, <1>5 DEF Load!ChildStep

\* A supervisor at work has a child.
LEMMA PtrIsChild ==
    ASSUME LoadInv, s3 \in {"walk", "sleep", "terminate", "wait"}
    PROVE  s5 = s4 /\ s5 \in Load!Pids /\ s5 # Load!NoChild
<1>1. MaxSpawns \in Nat
    BY ServicesAssumption DEF Load!ReloaderAssumption
<1>2. s5 = s4 /\ s4 > 0 /\ s4 \in 0 .. MaxSpawns
    BY DEF LoadInv, Load!LastAlive, Load!TypeOK
<1> QED
    BY <1>1, <1>2 DEF Load!Pids, Load!NoChild

\* The supervisor stops a child, or finds nobody to stop.
LEMMA StopMoves ==
    ASSUME LoadInv,
           \/ Load!Terminate("terminate", "wait", "spawn") \/ Load!Reap("wait", "spawn")
           \/ Load!Terminate("final", "final wait", "gone") \/ Load!Reap("final wait", "gone")
    PROVE  /\ UNCHANGED <<s1, s2, s4, s5, s6, s7, s8, s9>>
           /\ \/ s3 \in {"terminate", "wait"} /\ s3' \in {"wait", "spawn"}
              \/ s3 \in {"final", "final wait"} /\ s3' \in {"final wait", "gone"}
           /\ s3' \in {"wait", "final wait"} => s5 # Load!NoChild
           /\ \/ s10' = s10 /\ (s3' = "spawn" => ~Load!Alive(s5))
              \/ s5 \in Load!Pids
                 /\ \E c \in Load!Child :
                      /\ s10' = [s10 EXCEPT ![s5] = c] /\ c.born = s10[s5].born
                      /\ c.loaded = s10[s5].loaded /\ (c.st \in Up => s10[s5].st \in Up)
                      /\ c.st \notin {"unborn", "ended"} => Load!Alive(s5)
                      /\ s3' = "spawn" => c.st = "ended"
<1>1. ASSUME NEW from, NEW waiting, NEW next, Load!Terminate(from, waiting, next), waiting # "spawn",
             next # "wait", next # "final wait", <<from, next>> \in {<<"terminate", "spawn">>, <<"final", "gone">>}
      PROVE  /\ UNCHANGED <<s1, s2, s4, s5, s6, s7, s8, s9>> /\ s3 = from /\ s3' \in {waiting, next}
             /\ s3' \in {"wait", "final wait"} => s5 # Load!NoChild
             /\ \/ s10' = s10 /\ (s3' = "spawn" => s5 = Load!NoChild \/ ~Load!Alive(s5))
                \/ s5 \in Load!Pids
                   /\ \E c \in Load!Child :
                        /\ s10' = [s10 EXCEPT ![s5] = c] /\ c.born = s10[s5].born
                        /\ c.loaded = s10[s5].loaded /\ (c.st \in Up => s10[s5].st \in Up)
                        /\ c.st \notin {"unborn", "ended"} => Load!Alive(s5)
                        /\ s3' = "spawn" => c.st = "ended"
    <2>1. UNCHANGED <<s1, s2, s4, s5, s6, s7, s8, s9>> /\ s3 = from
        BY <1>1 DEF Load!Terminate, Load!watch
    <2>2. CASE s5 = Load!NoChild \/ ~Load!Alive(s5)
        BY <1>1, <2>1, <2>2 DEF Load!Terminate
    <2>3. CASE ~(s5 = Load!NoChild \/ ~Load!Alive(s5))
        <3>1. s5 \in Load!Pids /\ s3' = waiting
            BY <1>1, <2>3 DEF LoadInv, Load!TypeOK, Load!Terminate
        <3>2. PICK o \in Load!Child : o = s10[s5]
            BY <3>1 DEF LoadInv, Load!TypeOK
        <3>3. PICK t \in {"draining", "ended"} : t = Load!Told(o.st) /\ (t = "draining" => o.st \in Up)
            BY DEF Load!Told, Up
        <3>4. PICK c : c = [o EXCEPT !.st = t]
            OBVIOUS
        <3>5. c \in Load!Child /\ c.born = o.born /\ c.loaded = o.loaded /\ c.st = t
            BY <3>4 DEF Load!Child
        <3>6. s10' = [s10 EXCEPT ![s5] = c]
            BY <1>1, <2>3, <3>2, <3>3, <3>4 DEF Load!Terminate
        <3>7. c.st \in Up => o.st \in Up
            BY <3>3, <3>5 DEF Up
        <3> QED
            BY <1>1, <2>1, <2>3, <3>1, <3>2, <3>5, <3>6, <3>7
    <2> QED
        BY <2>2, <2>3
<1>2. ASSUME NEW waiting, NEW next, Load!Reap(waiting, next), waiting \in {"wait", "final wait"}
      PROVE  /\ UNCHANGED <<s1, s2, s4, s5, s6, s7, s8, s9>> /\ s3 = waiting /\ s3' = next
             /\ s5 \in Load!Pids /\ s5 # Load!NoChild
             /\ \E c \in Load!Child :
                        /\ s10' = [s10 EXCEPT ![s5] = c] /\ c.born = s10[s5].born
                        /\ c.loaded = s10[s5].loaded /\ c.st = "ended"
    <2>1. UNCHANGED <<s1, s2, s4, s5, s6, s7, s8, s9>> /\ s3 = waiting /\ s3' = next
        BY <1>2 DEF Load!Reap, Load!watch
    <2>2. s5 # Load!NoChild
        <3>1. CASE waiting = "wait"
            BY <2>1, <3>1, PtrIsChild
        <3>2. CASE waiting = "final wait"
            BY <2>1, <3>2 DEF LoadInv, Load!LastAlive
        <3> QED
            BY <1>2, <3>1, <3>2
    <2>3. s5 \in Load!Pids
        BY <2>2 DEF LoadInv, Load!TypeOK
    <2>4. PICK o \in Load!Child : o = s10[s5]
        BY <2>3 DEF LoadInv, Load!TypeOK
    <2>5. PICK c : c = [o EXCEPT !.st = "ended"]
        OBVIOUS
    <2>6. c \in Load!Child /\ c.born = o.born /\ c.loaded = o.loaded /\ c.st = "ended"
        BY <2>5 DEF Load!Child
    <2>7. s10' = [s10 EXCEPT ![s5] = c]
        BY <1>2, <2>4, <2>5 DEF Load!Reap
    <2> QED
        BY <2>1, <2>2, <2>3, <2>4, <2>6, <2>7
<1>3. CASE Load!Terminate("terminate", "wait", "spawn")
    <2>1. s3 = "terminate" => s5 # Load!NoChild
        BY PtrIsChild
    <2>2. Load!Terminate("terminate", "wait", "spawn") /\ "wait" # "spawn" /\ "spawn" # "final wait"
          /\ <<"terminate", "spawn">> \in {<<"terminate", "spawn">>, <<"final", "gone">>}
        BY <1>3
    <2>3. s3 = "terminate" /\ s3' \in {"wait", "spawn"}
        BY <1>3 DEF Load!Terminate
    <2>4. /\ UNCHANGED <<s1, s2, s4, s5, s6, s7, s8, s9>>
          /\ s3' \in {"wait", "final wait"} => s5 # Load!NoChild
          /\ \/ s10' = s10 /\ (s3' = "spawn" => s5 = Load!NoChild \/ ~Load!Alive(s5))
             \/ s5 \in Load!Pids
                /\ \E c \in Load!Child :
                        /\ s10' = [s10 EXCEPT ![s5] = c] /\ c.born = s10[s5].born
                        /\ c.loaded = s10[s5].loaded /\ (c.st \in Up => s10[s5].st \in Up)
                        /\ c.st \notin {"unborn", "ended"} => Load!Alive(s5)
                        /\ s3' = "spawn" => c.st = "ended"
        BY <1>1, <2>2
    <2> QED
        BY <2>1, <2>3, <2>4
<1>4. CASE Load!Terminate("final", "final wait", "gone")
    <2>1. Load!Terminate("final", "final wait", "gone") /\ "final wait" # "spawn" /\ "gone" # "final wait"
          /\ <<"final", "gone">> \in {<<"terminate", "spawn">>, <<"final", "gone">>} /\ "gone" # "wait"
        BY <1>4
    <2>2. s3 = "final" /\ s3' \in {"final wait", "gone"}
        BY <1>4 DEF Load!Terminate
    <2>3. /\ UNCHANGED <<s1, s2, s4, s5, s6, s7, s8, s9>>
          /\ s3' \in {"wait", "final wait"} => s5 # Load!NoChild
          /\ \/ s10' = s10 /\ (s3' = "spawn" => s5 = Load!NoChild \/ ~Load!Alive(s5))
             \/ s5 \in Load!Pids
                /\ \E c \in Load!Child :
                        /\ s10' = [s10 EXCEPT ![s5] = c] /\ c.born = s10[s5].born
                        /\ c.loaded = s10[s5].loaded /\ (c.st \in Up => s10[s5].st \in Up)
                        /\ c.st \notin {"unborn", "ended"} => Load!Alive(s5)
                        /\ s3' = "spawn" => c.st = "ended"
        BY <1>1, <2>1
    <2> QED
        BY <2>2, <2>3
<1>6. CASE Load!Reap("wait", "spawn")
    <2>1. s3 = "wait" /\ s3' = "spawn"
        BY <1>6 DEF Load!Reap
    <2>2. /\ UNCHANGED <<s1, s2, s4, s5, s6, s7, s8, s9>>
          /\ s5 \in Load!Pids /\ s5 # Load!NoChild
          /\ \E c \in Load!Child :
                /\ s10' = [s10 EXCEPT ![s5] = c] /\ c.born = s10[s5].born
                /\ c.loaded = s10[s5].loaded /\ c.st = "ended"
        BY <1>2, <1>6
    <2>3. PICK c \in Load!Child :
                /\ s10' = [s10 EXCEPT ![s5] = c] /\ c.born = s10[s5].born
                /\ c.loaded = s10[s5].loaded /\ c.st = "ended"
        BY <2>2
    <2>4. c.st \notin Up
        BY <2>3 DEF Up
    <2> QED
        BY <2>1, <2>2, <2>3, <2>4
<1>7. CASE Load!Reap("final wait", "gone")
    <2>1. s3 = "final wait" /\ s3' = "gone"
        BY <1>7 DEF Load!Reap
    <2>2. /\ UNCHANGED <<s1, s2, s4, s5, s6, s7, s8, s9>>
          /\ s5 \in Load!Pids /\ s5 # Load!NoChild
          /\ \E c \in Load!Child :
                /\ s10' = [s10 EXCEPT ![s5] = c] /\ c.born = s10[s5].born
                /\ c.loaded = s10[s5].loaded /\ c.st = "ended"
        BY <1>2, <1>7
    <2>3. PICK c \in Load!Child :
                /\ s10' = [s10 EXCEPT ![s5] = c] /\ c.born = s10[s5].born
                /\ c.loaded = s10[s5].loaded /\ c.st = "ended"
        BY <2>2
    <2>4. c.st \notin Up
        BY <2>3 DEF Up
    <2> QED
        BY <2>1, <2>2, <2>3, <2>4
<1> QED
    BY <1>3, <1>4, <1>6, <1>7

\* A child is spawned.
LEMMA PopenIs ==
    ASSUME Load!TypeOK, Load!Popen
    PROVE  \E n \in Load!Pids : \E c \in Load!Child :
              /\ s3 = "spawn" /\ s3' = "bind" /\ n = s4 + 1 /\ s4' = n /\ n > s4 /\ n > 0
              /\ UNCHANGED <<s1, s2, s5, s6, s7, s8, s9>> /\ s10' = [s10 EXCEPT ![n] = c]
              /\ c.st = "importing" /\ c.born = s2 /\ c.loaded = s10[n].loaded
<1>1. MaxSpawns \in Nat
    BY ServicesAssumption DEF Load!ReloaderAssumption
<1>2. s4 \in 0 .. MaxSpawns /\ s4 < MaxSpawns
    BY DEF Load!TypeOK, Load!Popen
<1>3. PICK n \in Load!Pids : n = s4 + 1 /\ n > s4 /\ n > 0
    BY <1>1, <1>2 DEF Load!Pids
<1>4. PICK o \in Load!Child : o = s10[n]
    BY DEF Load!TypeOK
<1>5. PICK c : c = [o EXCEPT !.st = "importing", !.born = s2]
    OBVIOUS
<1>6. c \in Load!Child /\ c.st = "importing" /\ c.born = s2 /\ c.loaded = o.loaded
    BY <1>5 DEF Load!Child, Load!TypeOK
<1>7. s10' = [s10 EXCEPT ![n] = c]
    BY <1>3, <1>4, <1>5 DEF Load!Popen
<1>8. s3 = "spawn" /\ s3' = "bind" /\ s4' = n /\ UNCHANGED <<s1, s2, s5, s6, s7, s8, s9>>
    BY <1>3 DEF Load!Popen, Load!watch
<1> QED
    BY <1>3, <1>4, <1>6, <1>7, <1>8

\* Who is alive after a step that moved one child.
LEMMA LastStays ==
    ASSUME LoadInv, NEW p \in Load!Pids, NEW c \in Load!Child, s10' = [s10 EXCEPT ![p] = c],
           s4' = s4, c.st \notin {"unborn", "ended"} => Load!Alive(p),
           p > s4 => c.loaded = s10[p].loaded
    PROVE  /\ \A q \in Load!Pids : Load!Alive(q)' => Load!Alive(q)
           /\ \A q \in Load!Pids : Load!Alive(q)' => q = s4'
           /\ \A q \in Load!Pids : q > s4' => \A f \in Files : s10'[q].loaded[f] = Load!Gone
<1>1. /\ s10'[p] = c /\ \A q \in Load!Pids : q # p => s10'[q] = s10[q]
    BY ProcMoves DEF LoadInv
<1>2. \A q \in Load!Pids : Load!Alive(q)' => Load!Alive(q)
    BY <1>1 DEF Load!Alive
<1>3. \A q \in Load!Pids : q > s4 => \A f \in Files : s10'[q].loaded[f] = Load!Gone
    <2>1. TAKE q \in Load!Pids
    <2>2. HAVE q > s4
    <2>3. \A f \in Files : s10[q].loaded[f] = Load!Gone
        BY <2>2 DEF LoadInv, Load!LastAlive
    <2>4. s10'[q].loaded = s10[q].loaded
        BY <1>1, <2>2
    <2> QED
        BY <2>3, <2>4
<1> QED
    BY <1>2, <1>3 DEF LoadInv, Load!LastAlive

\* Every step of the reloader keeps the types and the last child.
LEMMA LoadStep ==
    ASSUME LoadInv, Load!Next
    PROVE  LoadInv'
<1>1. CASE Load!Popen
    <2>1. PICK n \in Load!Pids : \E c \in Load!Child :
              /\ s3 = "spawn" /\ s3' = "bind" /\ n = s4 + 1 /\ s4' = n /\ n > s4 /\ n > 0
              /\ UNCHANGED <<s1, s2, s5, s6, s7, s8, s9>> /\ s10' = [s10 EXCEPT ![n] = c]
              /\ c.st = "importing" /\ c.born = s2 /\ c.loaded = s10[n].loaded
        BY <1>1, PopenIs DEF LoadInv
    <2>2. PICK c \in Load!Child :
              /\ s3 = "spawn" /\ s3' = "bind" /\ n = s4 + 1 /\ s4' = n /\ n > s4 /\ n > 0
              /\ UNCHANGED <<s1, s2, s5, s6, s7, s8, s9>> /\ s10' = [s10 EXCEPT ![n] = c]
              /\ c.st = "importing" /\ c.born = s2 /\ c.loaded = s10[n].loaded
        BY <2>1
    <2>3. /\ s10' \in [Load!Pids -> Load!Child] /\ s10'[n] = c
          /\ \A q \in Load!Pids : q # n => s10'[q] = s10[q]
        BY <2>2, ProcMoves DEF LoadInv
    <2>4. n \in 0 .. MaxSpawns
        BY DEF Load!Pids
    <2>5. Load!TypeOK'
        BY <2>2, <2>3, <2>4 DEF LoadInv, Load!TypeOK
    <2>6. \A q \in Load!Pids : Load!Alive(q)' => q = n
        BY <2>2, <2>3 DEF LoadInv, Load!LastAlive, Load!Alive
    <2>7. \A q \in Load!Pids : q > n => \A f \in Files : s10'[q].loaded[f] = Load!Gone
        <3>1. TAKE q \in Load!Pids
        <3>2. HAVE q > n
        <3>3. q # n /\ q > s4
            <4>1. q \in Int /\ n \in Int /\ s4 \in Int
                BY PidsAreInt DEF LoadInv
            <4> QED
                BY <2>2, <3>2, <4>1
        <3> QED
            BY <2>3, <3>3 DEF LoadInv, Load!LastAlive
    <2>8. Load!LastAlive'
        BY <2>2, <2>6, <2>7 DEF Load!LastAlive
    <2> QED
        BY <2>5, <2>8 DEF LoadInv
<1>2. CASE Load!Bind
    <2>1. /\ s3 = "bind" /\ s3' = "walk" /\ s5' = s4 /\ s6' = [f \in {} |-> Load!Gone] /\ s8' = TRUE
          /\ s9' = s2 /\ UNCHANGED <<s1, s2, s4, s7, s10>>
        BY <1>2 DEF Load!Bind, Load!BeginWalk
    <2>2. s4 > 0 /\ s4 \in 0 .. MaxSpawns /\ MaxSpawns \in Nat
        BY <2>1, ServicesAssumption DEF LoadInv, Load!LastAlive, Load!TypeOK, Load!ReloaderAssumption
    <2>3. s4 \in Load!Pids
        BY <2>2 DEF Load!Pids
    <2>4. DOMAIN s6' = {} /\ s9' \in 0 .. s2
        BY <2>1 DEF LoadInv, Load!TypeOK
    <2>5. Load!TypeOK'
        BY <2>1, <2>3, <2>4 DEF LoadInv, Load!TypeOK
    <2>6. Load!LastAlive'
        BY <2>1, <2>2 DEF LoadInv, Load!LastAlive, Load!Alive
    <2> QED
        BY <2>5, <2>6 DEF LoadInv
<1>3. CASE Load!Poll
    <2>1. /\ s3 = "sleep" /\ s3' = "walk" /\ s6' = [f \in {} |-> Load!Gone] /\ s8' = FALSE
          /\ s9' = s2 /\ UNCHANGED <<s1, s2, s4, s5, s7, s10>>
        BY <1>3 DEF Load!Poll, Load!BeginWalk
    <2>2. DOMAIN s6' = {} /\ s9' \in 0 .. s2
        BY <2>1 DEF LoadInv, Load!TypeOK
    <2>3. Load!TypeOK'
        BY <2>1, <2>2 DEF LoadInv, Load!TypeOK
    <2>4. Load!LastAlive'
        BY <2>1 DEF LoadInv, Load!LastAlive, Load!Alive
    <2> QED
        BY <2>3, <2>4 DEF LoadInv
<1>4. CASE \E f \in Files : Load!Stat(f)
    <2>1. PICK f \in Files : Load!Stat(f)
        BY <1>4
    <2>2. /\ s3 = "walk" /\ UNCHANGED <<s1, s2, s3, s4, s5, s7, s8, s9, s10>>
          /\ s6' = [g \in DOMAIN s6 \cup {f} |-> IF g = f THEN s1[f].mtime ELSE s6[g]]
        BY <2>1 DEF Load!Stat
    <2>3. s1[f].mtime \in Nat \cup {Load!Gone}
        BY DEF LoadInv, Load!TypeOK, Load!File
    <2>4. DOMAIN s6' \subseteq Files /\ \A g \in DOMAIN s6' : s6'[g] \in Nat \cup {Load!Gone}
        BY <2>2, <2>3 DEF LoadInv, Load!TypeOK
    <2>5. Load!TypeOK'
        BY <2>2, <2>4 DEF LoadInv, Load!TypeOK
    <2>6. Load!LastAlive'
        BY <2>2 DEF LoadInv, Load!LastAlive, Load!Alive
    <2> QED
        BY <2>5, <2>6 DEF LoadInv
<1>5. CASE Load!Compare
    <2>1. /\ s3 = "walk" /\ DOMAIN s6 = Files /\ s3' \in {"terminate", "sleep"}
          /\ UNCHANGED <<s1, s2, s4, s5, s6, s8, s9, s10>> /\ s7' \in {s6, s7}
        BY <1>5 DEF Load!Compare
    <2>2. Load!TypeOK'
        BY <2>1 DEF LoadInv, Load!TypeOK
    <2>3. Load!LastAlive'
        BY <2>1 DEF LoadInv, Load!LastAlive, Load!Alive
    <2> QED
        BY <2>2, <2>3 DEF LoadInv
<1>6. CASE \/ Load!Terminate("terminate", "wait", "spawn") \/ Load!Reap("wait", "spawn")
           \/ Load!Terminate("final", "final wait", "gone") \/ Load!Reap("final wait", "gone")
    <2>1. /\ UNCHANGED <<s1, s2, s4, s5, s6, s7, s8, s9>>
          /\ \/ s3 \in {"terminate", "wait"} /\ s3' \in {"wait", "spawn"}
             \/ s3 \in {"final", "final wait"} /\ s3' \in {"final wait", "gone"}
          /\ s3' \in {"wait", "final wait"} => s5 # Load!NoChild
        BY <1>6, StopMoves
    <2>2. s3' = "spawn" => s5 = s4
        BY <2>1, PtrIsChild
    <2>3. CASE s10' = s10 /\ (s3' = "spawn" => ~Load!Alive(s5))
        <3>1. Load!TypeOK'
            BY <2>1, <2>3 DEF LoadInv, Load!TypeOK
        <3>2. Load!LastAlive'
            BY <2>1, <2>2, <2>3 DEF LoadInv, Load!LastAlive, Load!Alive
        <3> QED
            BY <3>1, <3>2 DEF LoadInv
    <2>4. CASE s5 \in Load!Pids
               /\ \E c \in Load!Child :
                      /\ s10' = [s10 EXCEPT ![s5] = c] /\ c.born = s10[s5].born
                      /\ c.loaded = s10[s5].loaded /\ (c.st \in Up => s10[s5].st \in Up)
                      /\ c.st \notin {"unborn", "ended"} => Load!Alive(s5)
                      /\ s3' = "spawn" => c.st = "ended"
        <3>1. PICK c \in Load!Child :
                      /\ s10' = [s10 EXCEPT ![s5] = c]
                      /\ c.loaded = s10[s5].loaded
                      /\ c.st \notin {"unborn", "ended"} => Load!Alive(s5)
                      /\ s3' = "spawn" => c.st = "ended"
            BY <2>4
        <3>2. /\ s10' \in [Load!Pids -> Load!Child] /\ s10'[s5] = c
            BY <2>4, <3>1, ProcMoves DEF LoadInv
        <3>3. /\ \A q \in Load!Pids : Load!Alive(q)' => q = s4'
              /\ \A q \in Load!Pids : q > s4' => \A f \in Files : s10'[q].loaded[f] = Load!Gone
            BY <2>1, <2>4, <3>1, LastStays
        <3>4. s3' = "spawn" => \A q \in Load!Pids : ~Load!Alive(q)'
            <4>1. SUFFICES ASSUME s3' = "spawn" PROVE ~Load!Alive(s5)'
                BY <2>1, <2>2, <3>3
            <4> QED
                BY <2>1, <3>1, <3>2, <4>1 DEF Load!Alive
        <3>5. Load!TypeOK'
            BY <2>1, <3>2 DEF LoadInv, Load!TypeOK
        <3>6. Load!LastAlive'
            BY <2>1, <3>3, <3>4 DEF LoadInv, Load!LastAlive
        <3> QED
            BY <3>5, <3>6 DEF LoadInv
    <2> QED
        BY <1>6, <2>3, <2>4, StopMoves
<1>7. CASE Load!StopSignal
    <2>1. s3' \in {"gone", "final"} /\ UNCHANGED <<s1, s2, s4, s5, s6, s7, s8, s9, s10>>
        BY <1>7 DEF Load!StopSignal, Load!watch
    <2>2. Load!TypeOK'
        BY <2>1 DEF LoadInv, Load!TypeOK
    <2>3. Load!LastAlive'
        BY <2>1 DEF LoadInv, Load!LastAlive, Load!Alive
    <2> QED
        BY <2>2, <2>3 DEF LoadInv
<1>8. CASE \E p \in Load!Pids : Load!ChildStep(p)
    <2>1. PICK p \in Load!Pids : Load!ChildStep(p)
        BY <1>8
    <2>2. UNCHANGED <<s1, s2, s3, s4, s5, s6, s7, s8, s9>> /\ Load!Alive(p)
        BY <2>1, ChildMoves DEF LoadInv
    <2>3. PICK c \in Load!Child : s10' = [s10 EXCEPT ![p] = c]
        BY <2>1, ChildMoves DEF LoadInv
    <2>4. s10' \in [Load!Pids -> Load!Child]
        BY <2>3, ProcMoves DEF LoadInv
    <2>5. p = s4 /\ ~(p > s4)
        <3>1. p = s4 /\ s4 \in Int
            BY <2>2, PidsAreInt DEF LoadInv, Load!LastAlive
        <3> QED
            BY <3>1
    <2>6. /\ \A q \in Load!Pids : Load!Alive(q)' => Load!Alive(q)
          /\ \A q \in Load!Pids : Load!Alive(q)' => q = s4'
          /\ \A q \in Load!Pids : q > s4' => \A f \in Files : s10'[q].loaded[f] = Load!Gone
        BY <2>2, <2>3, <2>5, LastStays
    <2>7. Load!TypeOK'
        BY <2>2, <2>4 DEF LoadInv, Load!TypeOK
    <2>8. Load!LastAlive'
        BY <2>2, <2>6 DEF LoadInv, Load!LastAlive
    <2> QED
        BY <2>7, <2>8 DEF LoadInv
<1>9. CASE \E f \in Files : Load!Edit(f)
    <2>1. PICK f \in Files : Load!Edit(f)
        BY <1>9
    <2>2. s2' = s2 + 1 /\ UNCHANGED <<s3, s4, s5, s6, s7, s8, s9, s10>>
        BY <2>1 DEF Load!Edit, Load!watch
    <2>3. s2 \in Nat /\ s2' \in Nat /\ s9 \in 0 .. s2'
        <3>1. s2 \in Nat /\ s9 \in 0 .. s2
            BY DEF LoadInv, Load!TypeOK
        <3> QED
            BY <2>2, <3>1
    <2>4. PICK x \in Load!File : s1' = [s1 EXCEPT ![f] = x]
        <3>1. CASE \E step \in MtimeSteps :
                      s1' = [s1 EXCEPT ![f] = [version |-> s2 + 1, mtime |-> s2 + step]]
            <4>1. PICK step \in MtimeSteps :
                      s1' = [s1 EXCEPT ![f] = [version |-> s2 + 1, mtime |-> s2 + step]]
                BY <3>1
            <4>2. step \in Nat
                BY ServicesAssumption DEF Load!ReloaderAssumption
            <4>3. [version |-> s2 + 1, mtime |-> s2 + step] \in Load!File
                BY <2>3, <4>2 DEF Load!File
            <4> QED
                BY <4>1, <4>3
        <3>2. CASE s1' = [s1 EXCEPT ![f] = [version |-> Load!Removed, mtime |-> Load!Gone]]
            <4>1. [version |-> Load!Removed, mtime |-> Load!Gone] \in Load!File
                BY DEF Load!File
            <4> QED
                BY <3>2, <4>1
        <3> QED
            BY <2>1, <3>1, <3>2 DEF Load!Edit
    <2>5. s1' \in [Files -> Load!File]
        BY <2>4 DEF LoadInv, Load!TypeOK
    <2>6. Load!TypeOK'
        BY <2>2, <2>3, <2>5 DEF LoadInv, Load!TypeOK
    <2>7. Load!LastAlive'
        BY <2>2 DEF LoadInv, Load!LastAlive, Load!Alive
    <2> QED
        BY <2>6, <2>7 DEF LoadInv
<1> QED
    BY <1>1, <1>2, <1>3, <1>4, <1>5, <1>6, <1>7, <1>8, <1>9 DEF Load!Next, Load!Supervise

\* The reloader starts with no child.
LEMMA LoadInit == Load!Init => LoadInv
<1>1. SUFFICES ASSUME Load!Init PROVE LoadInv
    OBVIOUS
<1>2. MaxSpawns \in Nat
    BY ServicesAssumption DEF Load!ReloaderAssumption
<1>3. [version |-> 0, mtime |-> 0] \in Load!File
    BY DEF Load!File
<1>4. s1 \in [Files -> Load!File]
    BY <1>1, <1>3 DEF Load!Init
<1>5. Load!Unread \in [Files -> Nat \cup {Load!Gone, Load!Removed}] /\ \A f \in Files : Load!Unread[f] = Load!Gone
    BY DEF Load!Unread
<1>6. PICK c : c = [st |-> "unborn", hooks |-> "none", born |-> 0, loaded |-> Load!Unread]
    OBVIOUS
<1>7. c \in Load!Child /\ c.st = "unborn" /\ c.loaded = Load!Unread
    BY <1>5, <1>6 DEF Load!Child
<1>8. s10 \in [Load!Pids -> Load!Child] /\ \A p \in Load!Pids : s10[p] = c
    BY <1>1, <1>6, <1>7 DEF Load!Init
<1>9. DOMAIN s7 = Files /\ \A f \in Files : s7[f] = Load!Gone
    BY <1>1 DEF Load!Init, Load!Unread
<1>10. DOMAIN s6 = {}
    BY <1>1 DEF Load!Init
<1>11. s2 = 0 /\ s3 = "spawn" /\ s4 = 0 /\ s5 = Load!NoChild /\ s8 = TRUE /\ s9 = 0
    BY <1>1 DEF Load!Init
<1>12. Load!TypeOK
    BY <1>2, <1>4, <1>8, <1>9, <1>10, <1>11 DEF Load!TypeOK
<1>13. Load!LastAlive
    BY <1>5, <1>7, <1>8, <1>11 DEF Load!LastAlive, Load!Alive
<1> QED
    BY <1>12, <1>13 DEF LoadInv

\* At most one child serves.
LEMMA OneServer == LoadInv => Load!OneServerAtATime
BY DEF LoadInv, Load!LastAlive, Load!OneServerAtATime

\* What the versions of the files, the walks and the imports have in common.
TimedInv == Load!TimesAreVersions /\ Load!WalkStands /\ Load!ImportsFollow

\* The supervisor moves on: nothing is walked, compared or imported.
LEMMA NotWalking ==
    ASSUME LoadInv, TimedInv, UNCHANGED <<s1, s2, s6, s7, s9>>, s3' \notin {"bind", "walk", "sleep"},
           \A p \in Load!Pids : /\ s10'[p].born = s10[p].born /\ s10'[p].loaded = s10[p].loaded
                                /\ s10'[p].st \in Up => s10[p].st \in Up
    PROVE  TimedInv'
<1>1. Load!TimesAreVersions'
    BY DEF TimedInv, Load!TimesAreVersions
<1>2. Load!WalkStands'
    BY DEF Load!WalkStands
<1>3. Load!ImportsFollow'
    BY DEF TimedInv, Load!ImportsFollow, Up
<1> QED
    BY <1>1, <1>2, <1>3 DEF TimedInv

\* Every step keeps it, while each edit has a time of its own and a child
\* imports after the first walk.
LEMMA TimedStep ==
    ASSUME LoadInv, TimedInv, Load!Next, LoadInv', SlowBoot, MtimeSteps = {1}
    PROVE  TimedInv'
<1>0. s2 \in Nat /\ s10 \in [Load!Pids -> Load!Child] /\ s1 \in [Files -> Load!File]
    BY DEF LoadInv, Load!TypeOK
<1>1. CASE Load!Popen
    <2>1. PICK n \in Load!Pids : \E c \in Load!Child :
              /\ s3 = "spawn" /\ s3' = "bind" /\ n = s4 + 1 /\ s4' = n /\ n > s4 /\ n > 0
              /\ UNCHANGED <<s1, s2, s5, s6, s7, s8, s9>> /\ s10' = [s10 EXCEPT ![n] = c]
              /\ c.st = "importing" /\ c.born = s2 /\ c.loaded = s10[n].loaded
        BY <1>1, PopenIs DEF LoadInv
    <2>2. PICK c \in Load!Child :
              /\ s3 = "spawn" /\ s3' = "bind" /\ n = s4 + 1 /\ s4' = n /\ n > s4 /\ n > 0
              /\ UNCHANGED <<s1, s2, s5, s6, s7, s8, s9>> /\ s10' = [s10 EXCEPT ![n] = c]
              /\ c.st = "importing" /\ c.born = s2 /\ c.loaded = s10[n].loaded
        BY <2>1
    <2>3. /\ s10' \in [Load!Pids -> Load!Child] /\ s10'[n] = c
          /\ \A q \in Load!Pids : q # n => s10'[q] = s10[q]
        BY <2>2, ProcMoves DEF LoadInv
    <2>4. \A f \in Files : c.loaded[f] = Load!Gone
        BY <2>2 DEF LoadInv, Load!LastAlive
    <2>5. Load!TimesAreVersions' /\ Load!WalkStands'
        BY <2>2 DEF TimedInv, Load!TimesAreVersions, Load!WalkStands
    <2>6. \A p \in Load!Pids : s10'[p].born <= s2
        BY <1>0, <2>2, <2>3 DEF TimedInv, Load!ImportsFollow
    <2>7. \A p \in Load!Pids : s10'[p].st \in {"starting", "serving", "draining"} =>
              \A f \in Files : s10'[p].loaded[f] # Load!Gone
        BY <2>2, <2>3 DEF TimedInv, Load!ImportsFollow
    <2>8. Load!ImportsFollow'
        BY <2>2, <2>3, <2>4, <2>6, <2>7 DEF Load!ImportsFollow
    <2> QED
        BY <2>5, <2>8 DEF TimedInv
<1>2. CASE Load!Bind
    <2>1. /\ s3 = "bind" /\ s3' = "walk" /\ s6' = [f \in {} |-> Load!Gone] /\ s8' = TRUE
          /\ UNCHANGED <<s1, s2, s4, s7, s10>>
        BY <1>2 DEF Load!Bind, Load!BeginWalk
    <2>2. DOMAIN s6' = {}
        BY <2>1
    <2>3. Load!TimesAreVersions' /\ Load!WalkStands'
        BY <2>1, <2>2 DEF TimedInv, Load!TimesAreVersions, Load!WalkStands
    <2>4. Load!ImportsFollow'
        BY <2>1, <2>2 DEF TimedInv, Load!ImportsFollow
    <2> QED
        BY <2>3, <2>4 DEF TimedInv
<1>3. CASE Load!Poll
    <2>1. /\ s3 = "sleep" /\ s3' = "walk" /\ s6' = [f \in {} |-> Load!Gone] /\ s8' = FALSE
          /\ UNCHANGED <<s1, s2, s4, s7, s10>>
        BY <1>3 DEF Load!Poll, Load!BeginWalk
    <2>2. DOMAIN s6' = {}
        BY <2>1
    <2>3. Load!TimesAreVersions' /\ Load!WalkStands'
        BY <2>1, <2>2 DEF TimedInv, Load!TimesAreVersions, Load!WalkStands
    <2>4. Load!ImportsFollow'
        BY <2>1, <2>2 DEF TimedInv, Load!ImportsFollow
    <2> QED
        BY <2>3, <2>4 DEF TimedInv
<1>4. CASE \E f \in Files : Load!Stat(f)
    <2>1. PICK f \in Files : Load!Stat(f)
        BY <1>4
    <2>2. /\ s3 = "walk" /\ UNCHANGED <<s1, s2, s3, s4, s5, s7, s8, s9, s10>>
          /\ s6' = [g \in DOMAIN s6 \cup {f} |-> IF g = f THEN s1[f].mtime ELSE s6[g]]
        BY <2>1 DEF Load!Stat
    <2>3. PICK w \in Nat \cup {Load!Removed}, t \in Nat \cup {Load!Gone} : w = s1[f].version /\ t = s1[f].mtime
        BY <1>0 DEF Load!File
    <2>4. w <= s2 /\ t = IF w = Load!Removed THEN Load!Gone ELSE w
        BY <2>3 DEF TimedInv, Load!TimesAreVersions
    <2>5. t <= s2 /\ (w \in Nat => t # Load!Gone)
        BY <1>0, <2>4 DEF Load!Gone, Load!Removed
    <2>6. DOMAIN s6' = DOMAIN s6 \cup {f} /\ s6'[f] = t /\ \A g \in DOMAIN s6 : g # f => s6'[g] = s6[g]
        BY <2>2, <2>3
    <2>7. Load!TimesAreVersions'
        BY <2>2, <2>5, <2>6 DEF TimedInv, Load!TimesAreVersions
    <2>8. Load!WalkStands'
        BY <2>2, <2>3, <2>6 DEF TimedInv, Load!WalkStands
    <2>9. \A c : Load!FoundIfOld(w, c, t)
        BY <2>3, <2>5 DEF Load!FoundIfOld
    <2>10. Load!ImportsFollow'
        BY <2>2, <2>3, <2>6, <2>9 DEF TimedInv, Load!ImportsFollow
    <2> QED
        BY <2>7, <2>8, <2>10 DEF TimedInv
<1>5. CASE Load!Compare
    <2>1. /\ s3 = "walk" /\ DOMAIN s6 = Files
          /\ UNCHANGED <<s1, s2, s4, s5, s6, s8, s9, s10>>
        BY <1>5 DEF Load!Compare
    <2>2. CASE ~s8 /\ Load!changed_path(s7, s6)
        <3>1. s3' = "terminate" /\ s7' = s7
            BY <1>5, <2>2 DEF Load!Compare
        <3> QED
            BY <2>1, <3>1, NotWalking
    <2>3. CASE ~(~s8 /\ Load!changed_path(s7, s6))
        <3>1. s3' = "sleep" /\ s7' = s6
            BY <1>5, <2>3 DEF Load!Compare
        <3>2. Load!TimesAreVersions'
            BY <2>1, <3>1 DEF TimedInv, Load!TimesAreVersions
        <3>3. Load!WalkStands'
            BY <2>1, <3>1 DEF TimedInv, Load!WalkStands
        <3>4. PICK c : c = s10[s4]
            OBVIOUS
        <3>5. \A f \in Files : Load!FoundIfOld(s1[f].version, c, s6[f]) /\ Load!Follows(s1[f].version, c, f, s6[f])
            <4>1. CASE s8
                <5>1. \A f \in Files : c.loaded[f] = Load!Gone /\ Load!FoundIfOld(s1[f].version, c, s6[f])
                    BY <2>1, <3>4, <4>1 DEF TimedInv, Load!ImportsFollow
                <5> QED
                    BY <5>1 DEF Load!Follows
            <4>2. CASE ~s8
                <5>1. \A f \in Files : s6[f] = s7[f]
                    BY <2>3, <4>2 DEF Load!changed_path
                <5>2. \A f \in Files : Load!FoundIfOld(s1[f].version, c, s7[f]) /\ Load!Follows(s1[f].version, c, f, s7[f])
                    BY <2>1, <3>4, <4>2 DEF TimedInv, Load!ImportsFollow
                <5> QED
                    BY <5>1, <5>2
            <4> QED
                BY <4>1, <4>2
        <3>6. Load!ImportsFollow'
            BY <2>1, <3>1, <3>4, <3>5 DEF TimedInv, Load!ImportsFollow
        <3> QED
            BY <3>2, <3>3, <3>6 DEF TimedInv
    <2> QED
        BY <2>2, <2>3
<1>6. CASE \/ Load!Terminate("terminate", "wait", "spawn") \/ Load!Reap("wait", "spawn")
           \/ Load!Terminate("final", "final wait", "gone") \/ Load!Reap("final wait", "gone")
    <2>1. UNCHANGED <<s1, s2, s6, s7, s9>> /\ s3' \notin {"bind", "walk", "sleep"}
        BY <1>6, StopMoves
    <2>2. CASE s10' = s10
        BY <2>1, <2>2, NotWalking
    <2>3. CASE s5 \in Load!Pids
               /\ \E c \in Load!Child :
                      /\ s10' = [s10 EXCEPT ![s5] = c] /\ c.born = s10[s5].born
                      /\ c.loaded = s10[s5].loaded /\ (c.st \in Up => s10[s5].st \in Up)
        <3>1. PICK c \in Load!Child :
                      /\ s10' = [s10 EXCEPT ![s5] = c] /\ c.born = s10[s5].born
                      /\ c.loaded = s10[s5].loaded /\ (c.st \in Up => s10[s5].st \in Up)
            BY <2>3
        <3>2. s10'[s5] = c /\ \A q \in Load!Pids : q # s5 => s10'[q] = s10[q]
            BY <2>3, <3>1, ProcMoves DEF LoadInv
        <3>3. \A p \in Load!Pids : /\ s10'[p].born = s10[p].born /\ s10'[p].loaded = s10[p].loaded
                                   /\ s10'[p].st \in Up => s10[p].st \in Up
            BY <3>1, <3>2
        <3> QED
            BY <2>1, <3>3, NotWalking
    <2> QED
        BY <1>6, <2>2, <2>3, StopMoves
<1>7. CASE Load!StopSignal
    <2>1. s3' \in {"gone", "final"} /\ UNCHANGED <<s1, s2, s6, s7, s9, s10>>
        BY <1>7 DEF Load!StopSignal, Load!watch
    <2> QED
        BY <2>1, NotWalking
<1>8. CASE \E p \in Load!Pids : Load!ChildStep(p)
    <2>1. PICK p \in Load!Pids : Load!ChildStep(p)
        BY <1>8
    <2>2. UNCHANGED <<s1, s2, s3, s4, s5, s6, s7, s8, s9>> /\ Load!Alive(p)
        BY <2>1, ChildMoves DEF LoadInv
    <2>3. p = s4
        BY <2>2 DEF LoadInv, Load!LastAlive
    <2>4. PICK c \in Load!Child :
                 /\ s10' = [s10 EXCEPT ![p] = c] /\ c.born = s10[p].born
                 /\ \/ /\ c.loaded = s10[p].loaded
                       /\ c.st \in Up => s10[p].st \in Up \/ \A f \in Files : c.loaded[f] # Load!Gone
                    \/ \E f \in Files :
                          /\ SlowBoot => ~(s3 = "bind" \/ (s3 = "walk" /\ s8))
                          /\ c.loaded = [s10[p].loaded EXCEPT ![f] = s1[f].version]
                          /\ c.st = "importing"
        BY <2>1, ChildMoves DEF LoadInv
    <2>5. s10'[p] = c /\ \A q \in Load!Pids : q # p => s10'[q] = s10[q]
        BY <2>4, ProcMoves DEF LoadInv
    <2>6. PICK o \in Load!Child : o = s10[p]
        BY <1>0
    <2>7. Load!TimesAreVersions' /\ Load!WalkStands'
        BY <2>2 DEF TimedInv, Load!TimesAreVersions, Load!WalkStands
    <2>8. \A q \in Load!Pids : s10'[q].born <= s2
        BY <2>4, <2>5 DEF TimedInv, Load!ImportsFollow
    <2>9. CASE /\ c.loaded = o.loaded
               /\ c.st \in Up => o.st \in Up \/ \A f \in Files : c.loaded[f] # Load!Gone
        <3>1. \A q \in Load!Pids : s10'[q].st \in {"starting", "serving", "draining"} =>
                 \A f \in Files : s10'[q].loaded[f] # Load!Gone
            BY <2>5, <2>6, <2>9 DEF TimedInv, Load!ImportsFollow, Up
        <3>2. \A w, f, t : /\ Load!FoundIfOld(w, o, t) => Load!FoundIfOld(w, c, t)
                           /\ Load!Follows(w, o, f, t) => Load!Follows(w, c, f, t)
            BY <2>4, <2>6, <2>9 DEF Load!FoundIfOld, Load!Follows
        <3>3. /\ s3 = "bind" \/ (s3 = "walk" /\ s8) => \A f \in Files : c.loaded[f] = Load!Gone
              /\ s3 = "walk" /\ s8 => \A f \in DOMAIN s6 : Load!FoundIfOld(s1[f].version, c, s6[f])
              /\ s3 = "sleep" \/ (s3 = "walk" /\ ~s8) =>
                    \A f \in Files : /\ Load!FoundIfOld(s1[f].version, c, s7[f])
                                     /\ Load!Follows(s1[f].version, c, f, s7[f])
            BY <2>3, <2>6, <2>9, <3>2 DEF TimedInv, Load!ImportsFollow
        <3>4. Load!ImportsFollow'
            BY <2>2, <2>3, <2>5, <2>8, <3>1, <3>3 DEF Load!ImportsFollow
        <3> QED
            BY <2>7, <3>4 DEF TimedInv
    <2>10. CASE \E f \in Files :
                          /\ SlowBoot => ~(s3 = "bind" \/ (s3 = "walk" /\ s8))
                          /\ c.loaded = [o.loaded EXCEPT ![f] = s1[f].version]
                          /\ c.st = "importing"
        <3>1. PICK f \in Files : /\ ~(s3 = "bind" \/ (s3 = "walk" /\ s8))
                                 /\ c.loaded = [o.loaded EXCEPT ![f] = s1[f].version]
                                 /\ c.st = "importing"
            BY <2>10
        <3>2. o.loaded \in [Files -> Nat \cup {Load!Gone, Load!Removed}]
            BY DEF Load!Child
        <3>3. c.loaded[f] = s1[f].version /\ \A g \in Files : g # f => c.loaded[g] = o.loaded[g]
            BY <3>1, <3>2
        <3>4. \A q \in Load!Pids : s10'[q].st \in {"starting", "serving", "draining"} =>
                 \A g \in Files : s10'[q].loaded[g] # Load!Gone
            BY <2>5, <3>1 DEF TimedInv, Load!ImportsFollow
        <3>5. s3 = "sleep" \/ (s3 = "walk" /\ ~s8) =>
                    \A g \in Files : /\ Load!FoundIfOld(s1[g].version, c, s7[g])
                                     /\ Load!Follows(s1[g].version, c, g, s7[g])
            <4>1. SUFFICES ASSUME s3 = "sleep" \/ (s3 = "walk" /\ ~s8), NEW g \in Files
                           PROVE  /\ Load!FoundIfOld(s1[g].version, c, s7[g])
                                  /\ Load!Follows(s1[g].version, c, g, s7[g])
                OBVIOUS
            <4>2. /\ Load!FoundIfOld(s1[g].version, o, s7[g])
                  /\ Load!Follows(s1[g].version, o, g, s7[g])
                BY <2>3, <2>6, <4>1 DEF TimedInv, Load!ImportsFollow
            <4>3. Load!FoundIfOld(s1[g].version, c, s7[g])
                BY <2>4, <2>6, <4>2 DEF Load!FoundIfOld
            <4>4. CASE g = f
                BY <3>3, <4>3, <4>4 DEF Load!Follows, Load!FoundIfOld
            <4>5. CASE g # f
                <5>1. c.born = o.born /\ c.loaded[g] = o.loaded[g]
                    BY <2>4, <2>6, <3>3, <4>5
                <5> QED
                    BY <4>2, <4>3, <5>1 DEF Load!Follows
            <4> QED
                BY <4>3, <4>4, <4>5
        <3>6. Load!ImportsFollow'
            BY <2>2, <2>3, <2>5, <2>8, <3>1, <3>4, <3>5 DEF Load!ImportsFollow
        <3> QED
            BY <2>7, <3>6 DEF TimedInv
    <2> QED
        BY <2>4, <2>6, <2>9, <2>10
<1>9. CASE \E f \in Files : Load!Edit(f)
    <2>1. PICK f \in Files : Load!Edit(f)
        BY <1>9
    <2>2. s2' = s2 + 1 /\ UNCHANGED <<s3, s4, s5, s6, s7, s8, s9, s10>>
        BY <2>1 DEF Load!Edit, Load!watch
    <2>3. PICK n \in Nat : n = s2
        BY <1>0
    <2>4. PICK w \in Nat \cup {Load!Removed} :
             /\ w = n + 1 \/ w = Load!Removed
             /\ s1'[f].version = w /\ s1'[f].mtime = IF w = Load!Removed THEN Load!Gone ELSE w
             /\ \A g \in Files : g # f => s1'[g] = s1[g]
        <3>1. CASE s1' = [s1 EXCEPT ![f] = [version |-> s2 + 1, mtime |-> s2 + 1]]
            <4>1. s1'[f].version = n + 1 /\ s1'[f].mtime = n + 1 /\ \A g \in Files : g # f => s1'[g] = s1[g]
                BY <1>0, <2>3, <3>1
            <4>2. n + 1 \in Nat /\ n + 1 # Load!Removed
                BY DEF Load!Removed
            <4> QED
                BY <4>1, <4>2
        <3>2. CASE s1' = [s1 EXCEPT ![f] = [version |-> Load!Removed, mtime |-> Load!Gone]]
            BY <1>0, <3>2
        <3> QED
            BY <2>1, <3>1, <3>2 DEF Load!Edit
    <2>5. \A g \in Files : s7[g] \in Nat \cup {Load!Gone} /\ s7[g] <= n
        BY <2>3 DEF LoadInv, Load!TypeOK, TimedInv, Load!TimesAreVersions
    <2>6. \A g \in DOMAIN s6 : s6[g] \in Nat \cup {Load!Gone} /\ s6[g] <= n
        BY <2>3 DEF LoadInv, Load!TypeOK, TimedInv, Load!TimesAreVersions
    <2>7. Load!TimesAreVersions'
        <3>1. w <= n + 1
            BY <2>4 DEF Load!Removed
        <3>2. \A g \in Files : s7[g] <= n + 1
            BY <2>5 DEF Load!Gone
        <3>3. \A g \in DOMAIN s6 : s6[g] <= n + 1
            BY <2>6 DEF Load!Gone
        <3>4. \A g \in Files : g # f => /\ s1'[g].version <= n + 1
                                        /\ s1'[g].mtime = IF s1'[g].version = Load!Removed THEN Load!Gone ELSE s1'[g].version
            <4>1. \A g \in Files : s1[g].version \in Int /\ s1[g].version <= n
                BY <1>0, <2>3 DEF Load!File, Load!Removed, TimedInv, Load!TimesAreVersions
            <4>2. \A g \in Files : s1[g].version <= n + 1
                BY <4>1
            <4> QED
                BY <2>4, <4>2 DEF TimedInv, Load!TimesAreVersions
        <3> QED
            BY <2>2, <2>3, <2>4, <3>1, <3>2, <3>3, <3>4 DEF Load!TimesAreVersions
    <2>8. Load!WalkStands'
        <3>1. s9 \in 0 .. n
            BY <2>3 DEF LoadInv, Load!TypeOK
        <3>2. s9 # n + 1
            BY <3>1
        <3> QED
            BY <2>2, <2>3, <3>2 DEF TimedInv, Load!WalkStands
    <2>9. \A p \in Load!Pids : s10[p].born \in Nat /\ s10[p].born <= n
        BY <1>0, <2>3 DEF TimedInv, Load!ImportsFollow, Load!Child
    <2>10. ASSUME NEW c \in Load!Child, c.born <= n, NEW g \in Files, NEW t \in Nat \cup {Load!Gone}, t <= n
           PROVE  /\ Load!FoundIfOld(s1[g].version, c, t) => Load!FoundIfOld(s1'[g].version, c, t)
                  /\ Load!Follows(s1[g].version, c, g, t) => Load!Follows(s1'[g].version, c, g, t)
        <3>1. CASE g # f
            BY <2>4, <3>1
        <3>2. CASE g = f
            <4>1. c.born \in Nat
                BY DEF Load!Child
            <4>2. w \notin 0 .. c.born
                BY <2>4, <2>10, <4>1 DEF Load!Removed
            <4>3. w # Load!Removed => w > t
                BY <2>4, <2>10 DEF Load!Gone
            <4> QED
                BY <2>4, <3>2, <4>2, <4>3 DEF Load!FoundIfOld, Load!Follows
        <3> QED
            BY <3>1, <3>2
    <2>11. Load!ImportsFollow'
        <3>1. \A p \in Load!Pids : s10'[p].born <= n + 1
            BY <2>2, <2>9
        <3>2. s3 \in {"walk", "sleep"} => s4 \in Load!Pids
            BY PtrIsChild
        <3>3. s3 \in {"walk", "sleep"} => s10[s4] \in Load!Child /\ s10[s4].born <= n
            BY <1>0, <2>9, <3>2
        <3>4. s3 = "walk" /\ s8 => \A g \in DOMAIN s6 : Load!FoundIfOld(s1'[g].version, s10[s4], s6[g])
            <4>1. DOMAIN s6 \subseteq Files
                BY DEF LoadInv, Load!TypeOK
            <4> QED
                BY <2>6, <2>10, <3>3, <4>1 DEF TimedInv, Load!ImportsFollow
        <3>5. s3 = "sleep" \/ (s3 = "walk" /\ ~s8) =>
                    \A g \in Files : /\ Load!FoundIfOld(s1'[g].version, s10[s4], s7[g])
                                     /\ Load!Follows(s1'[g].version, s10[s4], g, s7[g])
            BY <2>5, <2>10, <3>3 DEF TimedInv, Load!ImportsFollow
        <3> QED
            BY <2>2, <2>3, <3>1, <3>4, <3>5 DEF TimedInv, Load!ImportsFollow
    <2> QED
        BY <2>7, <2>8, <2>11 DEF TimedInv
<1> QED
    BY <1>1, <1>2, <1>3, <1>4, <1>5, <1>6, <1>7, <1>8, <1>9 DEF Load!Next, Load!Supervise

\* It holds before the first child.
LEMMA TimedInit == Load!Init => TimedInv
<1>1. SUFFICES ASSUME Load!Init PROVE TimedInv
    OBVIOUS
<1>2. /\ s2 = 0 /\ s3 = "spawn" /\ DOMAIN s6 = {} /\ \A f \in Files : s7[f] = Load!Gone
      /\ \A f \in Files : s1[f] = [version |-> 0, mtime |-> 0]
    BY <1>1 DEF Load!Init, Load!Unread
<1>3. \A p \in Load!Pids : s10[p] = [st |-> "unborn", hooks |-> "none", born |-> 0, loaded |-> Load!Unread]
    BY <1>1 DEF Load!Init
<1>4. Load!TimesAreVersions
    BY <1>2 DEF Load!TimesAreVersions, Load!Gone, Load!Removed
<1>5. Load!WalkStands
    BY <1>2 DEF Load!WalkStands
<1>6. Load!ImportsFollow
    BY <1>2, <1>3 DEF Load!ImportsFollow
<1> QED
    BY <1>4, <1>5, <1>6 DEF TimedInv

\* A poll that found nothing new leaves the server with what is there.
LEMMA PollIsEnough == LoadInv /\ TimedInv => Load!ServesWhatIsThere
<1>1. SUFFICES ASSUME LoadInv, TimedInv, s3 = "sleep", ~s8, s9 = s2, s10[s5].st = "serving", NEW f \in Files
               PROVE  \/ s10[s5].loaded[f] = s1[f].version
                      \/ s1[f].version = Load!Removed /\ s10[s5].loaded[f] > s10[s5].born
    BY DEF Load!ServesWhatIsThere
<1>2. s5 = s4 /\ s5 \in Load!Pids
    BY <1>1, PtrIsChild
<1>3. PICK c \in Load!Child : c = s10[s5]
    BY <1>1, <1>2 DEF LoadInv, Load!TypeOK
<1>4. PICK v \in Nat \cup {Load!Gone, Load!Removed}, born \in Nat : v = c.loaded[f] /\ born = c.born
    BY <1>1 DEF Load!Child
<1>5. PICK w \in Nat \cup {Load!Removed} : w = s1[f].version
    BY <1>1 DEF LoadInv, Load!TypeOK, Load!File
<1>6. v # Load!Gone
    BY <1>1, <1>2, <1>3, <1>4 DEF TimedInv, Load!ImportsFollow
<1>7. DOMAIN s7 = Files
    BY <1>1 DEF LoadInv, Load!TypeOK
<1>8. s7 = s6 /\ \A g \in DOMAIN s6 : s6[g] = s1[g].mtime
    BY <1>1 DEF TimedInv, Load!WalkStands
<1>9. s7[f] = s1[f].mtime
    BY <1>1, <1>7, <1>8
<1>10. s7[f] = IF w = Load!Removed THEN Load!Gone ELSE w
    BY <1>1, <1>5, <1>9 DEF TimedInv, Load!TimesAreVersions
<1>11. Load!Follows(w, c, f, s7[f])
    BY <1>1, <1>2, <1>3, <1>5 DEF TimedInv, Load!ImportsFollow
<1>12. (w # Load!Removed /\ v # w => w > s7[f]) /\ (v \in 0 .. born => s7[f] # Load!Gone)
    BY <1>4, <1>6, <1>11 DEF Load!Follows
<1>13. CASE w # Load!Removed
    <2>1. w \in Nat /\ s7[f] = w
        BY <1>10, <1>13
    <2>2. ~(w > s7[f])
        BY <2>1
    <2> QED
        BY <1>3, <1>4, <1>5, <1>12, <1>13, <2>2
<1>14. CASE w = Load!Removed
    <2>1. v \notin 0 .. born
        BY <1>10, <1>12, <1>14
    <2>2. v = Load!Removed \/ v > born
        BY <1>4, <1>6, <2>1
    <2> QED
        BY <1>3, <1>4, <1>5, <1>14, <2>2
<1> QED
    BY <1>13, <1>14

-----------------------------------------------------------------------------
(* MCP over stdio: kind, serving, phase, stack, bound, waiting, asks,       *)
(* cancelled and answers are s1 to s9.                                      *)

Phases == {"unread", "start", "queued", "run", "drain", "emit"} \cup Stdio!Ended

\* The order of the messages.
OrderInv ==
    /\ s1 \in [Stdio!Msg -> {"none", "call", "other", "ping", "cancel"}]
    /\ s3 \in [Stdio!Msg -> Phases]
    /\ Stdio!ReadInOrder /\ Stdio!SerialCalls

\* The frames of the calls.
FramesInv ==
    /\ s3 \in [Stdio!Msg -> Phases]
    /\ s4 \in [Stdio!Msg -> Seq(Stdio!Frames)] /\ s5 \in [Stdio!Msg -> Nat]
    /\ Stdio!StacksAreSound

StdioInv == OrderInv /\ FramesInv

\* Messages are numbered.
LEMMA MsgIs == Stdio!Msg \subseteq Nat
BY ServicesAssumption DEF Stdio!StdioAssumption, Stdio!Msg

\* A dispatch that had begun, or may begin, moves on.
LEMMA PhaseMoves ==
    ASSUME OrderInv, NEW m \in Stdio!Msg, NEW p \in Phases \ {"unread", "queued", "start"},
           s3' = [s3 EXCEPT ![m] = p], s1' = s1,
           Stdio!MayStart(m) \/ s3[m] \in {"run", "drain", "emit"}
    PROVE  OrderInv'
<1>1. s3[m] \notin Stdio!Ended /\ s3[m] # "unread"
    BY DEF Stdio!MayStart, Stdio!Ended
<1>2. /\ s3' \in [Stdio!Msg -> Phases] /\ s3'[m] = p
      /\ \A n \in Stdio!Msg : n # m => s3'[n] = s3[n]
    BY DEF OrderInv
<1>3. Stdio!ReadInOrder'
    BY <1>1, <1>2 DEF OrderInv, Stdio!ReadInOrder
<1>4. Stdio!SerialCalls'
    <2>1. SUFFICES ASSUME NEW a \in Stdio!Msg, NEW b \in Stdio!Msg, a < b, s1[a] \in Stdio!Serial,
                          s1[b] \in Stdio!Serial, s3'[b] \notin {"unread", "queued"}
                   PROVE  s3'[a] \in Stdio!Ended
        BY DEF Stdio!SerialCalls
    <2>2. CASE b = m
        <3>1. a # m
            BY <2>1, <2>2, MsgIs
        <3>2. CASE s3[m] \in {"run", "drain", "emit"}
            BY <1>2, <2>1, <2>2, <3>1, <3>2 DEF OrderInv, Stdio!SerialCalls
        <3>3. CASE Stdio!MayStart(m)
            <4>1. s3[m] # "start"
                BY <2>1, <2>2 DEF OrderInv, Stdio!ReadInOrder
            <4>2. a \in Stdio!SerialBefore(m)
                BY <2>1, <2>2 DEF Stdio!SerialBefore
            <4> QED
                BY <1>2, <3>1, <3>3, <4>1, <4>2 DEF Stdio!MayStart
        <3> QED
            BY <3>2, <3>3
    <2>3. CASE b # m
        <3>1. s3[a] \in Stdio!Ended
            BY <1>2, <2>1, <2>3 DEF OrderInv, Stdio!SerialCalls
        <3> QED
            BY <1>1, <1>2, <3>1
    <2> QED
        BY <2>2, <2>3
<1> QED
    BY <1>2, <1>3, <1>4 DEF OrderInv

\* A message is read.
LEMMA ReadKeepsOrder ==
    ASSUME OrderInv, NEW m \in Stdio!Msg, NEW k \in {"call", "other", "ping", "cancel"}, Stdio!Read(m, k)
    PROVE  OrderInv'
<1>1. PICK p : p = IF k \in Stdio!Serial THEN "queued" ELSE "start"
    OBVIOUS
<1>2. s3' = [s3 EXCEPT ![m] = p] /\ s1' = [s1 EXCEPT ![m] = k] /\ s3[m] = "unread"
    BY <1>1 DEF Stdio!Read, Stdio!Unread
<1>3. \A n \in Stdio!Msg : n < m => s3[n] # "unread"
    BY DEF Stdio!Read, Stdio!Unread
<1>4. /\ s3' \in [Stdio!Msg -> Phases] /\ s3'[m] = p
      /\ s1' \in [Stdio!Msg -> {"none", "call", "other", "ping", "cancel"}] /\ s1'[m] = k
      /\ \A n \in Stdio!Msg : n # m => s3'[n] = s3[n] /\ s1'[n] = s1[n]
    BY <1>1, <1>2 DEF OrderInv, Phases
<1>5. p # "unread" /\ (p = "start" => k \notin Stdio!Serial)
    BY <1>1
<1>6. Stdio!ReadInOrder'
    <2>1. \A n \in Stdio!Msg : s3'[n] = "unread" <=> s1'[n] = "none"
        BY <1>4, <1>5 DEF OrderInv, Stdio!ReadInOrder
    <2>2. \A n \in Stdio!Msg : s3'[n] = "start" => s1'[n] \notin Stdio!Serial
        BY <1>4, <1>5 DEF OrderInv, Stdio!ReadInOrder
    <2>3. ASSUME NEW a \in Stdio!Msg, NEW b \in Stdio!Msg, a < b, s3'[a] = "unread"
          PROVE  s3'[b] = "unread"
        <3>1. a # m /\ s3[a] = "unread"
            BY <1>4, <1>5, <2>3
        <3>2. b # m
            BY <1>3, <2>3, <3>1
        <3> QED
            BY <1>4, <2>3, <3>1, <3>2 DEF OrderInv, Stdio!ReadInOrder
    <2> QED
        BY <2>1, <2>2, <2>3 DEF Stdio!ReadInOrder
<1>7. Stdio!SerialCalls'
    <2>1. SUFFICES ASSUME NEW a \in Stdio!Msg, NEW b \in Stdio!Msg, a < b, s1'[a] \in Stdio!Serial,
                          s1'[b] \in Stdio!Serial, s3'[b] \notin {"unread", "queued"}
                   PROVE  s3'[a] \in Stdio!Ended
        BY DEF Stdio!SerialCalls
    <2>2. b # m
        BY <1>1, <1>4, <2>1
    <2>3. a # m
        BY <1>2, <1>4, <2>1, <2>2 DEF OrderInv, Stdio!ReadInOrder
    <2> QED
        BY <1>4, <2>1, <2>2, <2>3 DEF OrderInv, Stdio!SerialCalls
<1> QED
    BY <1>4, <1>6, <1>7 DEF OrderInv

\* A dispatch that runs no tool, before and after the step.
LEMMA NoFrames ==
    ASSUME FramesInv, NEW m \in Stdio!Msg, NEW p \in Phases, s3' = [s3 EXCEPT ![m] = p],
           s3[m] # "run", p # "run", UNCHANGED <<s4, s5>>
    PROVE  FramesInv'
<1>1. /\ s3' \in [Stdio!Msg -> Phases] /\ s3'[m] = p
      /\ \A n \in Stdio!Msg : n # m => s3'[n] = s3[n]
    BY DEF FramesInv
<1>2. Stdio!StacksAreSound'
    BY <1>1 DEF FramesInv, Stdio!StacksAreSound
<1> QED
    BY <1>1, <1>2 DEF FramesInv

\* The frames of one dispatch change.
LEMMA FramesMove ==
    ASSUME FramesInv, NEW m \in Stdio!Msg, NEW p \in Phases, NEW st \in Seq(Stdio!Frames),
           NEW b \in Nat, s3' = [s3 EXCEPT ![m] = p], s4' = [s4 EXCEPT ![m] = st],
           s5' = [s5 EXCEPT ![m] = b], p = "run" <=> st # <<>>, st = <<>> => b = 0,
           \A i \in DOMAIN st : Stdio!FrameOk(st[i], i, Len(st), b)
    PROVE  FramesInv'
<1>1. /\ s3' \in [Stdio!Msg -> Phases] /\ s3'[m] = p
      /\ s4' \in [Stdio!Msg -> Seq(Stdio!Frames)] /\ s4'[m] = st
      /\ s5' \in [Stdio!Msg -> Nat] /\ s5'[m] = b
      /\ \A n \in Stdio!Msg : n # m => s3'[n] = s3[n] /\ s4'[n] = s4[n] /\ s5'[n] = s5[n]
    BY DEF FramesInv
<1>2. Stdio!StacksAreSound'
    <2>1. SUFFICES ASSUME NEW n \in Stdio!Msg
                   PROVE  /\ s3'[n] = "run" <=> s4'[n] # <<>>
                          /\ s4'[n] = <<>> => s5'[n] = 0
                          /\ \A i \in DOMAIN s4'[n] : Stdio!FrameOk(s4'[n][i], i, Len(s4'[n]), s5'[n])
        BY DEF Stdio!StacksAreSound, Stdio!FrameOk
    <2>2. CASE n = m
        BY <1>1, <2>2
    <2>3. CASE n # m
        BY <1>1, <2>3 DEF FramesInv, Stdio!StacksAreSound
    <2> QED
        BY <2>2, <2>3
<1> QED
    BY <1>1, <1>2 DEF FramesInv

\* What lies below the innermost call does not mind the context.
LEMMA BelowIsOk ==
    ASSUME NEW f, NEW i, NEW n, NEW b, NEW c, i < n, Stdio!FrameOk(f, i, n, b), i # n
    PROVE  Stdio!FrameOk(f, i, n, c) /\ f.at = "tool"
BY DEF Stdio!FrameOk

\* The innermost call of a dispatch.
LEMMA TopIs ==
    ASSUME FramesInv, NEW m \in Stdio!Msg, s3[m] = "run"
    PROVE  \E n \in Nat \ {0} :
              /\ n = Len(s4[m]) /\ DOMAIN s4[m] = 1 .. n /\ Stdio!Top(m) = s4[m][n]
              /\ s4[m] \in Seq(Stdio!Frames) /\ Stdio!Top(m) \in Stdio!Frames
              /\ Stdio!FrameOk(Stdio!Top(m), n, n, s5[m]) /\ s5[m] \in Nat
              /\ \A i \in 1 .. n : s4[m][i] \in Stdio!Frames /\ Stdio!FrameOk(s4[m][i], i, n, s5[m])
<1>1. s4[m] \in Seq(Stdio!Frames) /\ s5[m] \in Nat /\ s4[m] # <<>>
    BY DEF FramesInv, Stdio!StacksAreSound
<1>2. PICK n \in Nat : n = Len(s4[m]) /\ DOMAIN s4[m] = 1 .. n
    BY <1>1, LenProperties
<1>3. n # 0
    BY <1>1, <1>2, EmptySeq
<1>4. \A i \in 1 .. n : s4[m][i] \in Stdio!Frames
    BY <1>1, <1>2, ElementOfSeq
<1>5. \A i \in 1 .. n : Stdio!FrameOk(s4[m][i], i, n, s5[m])
    BY <1>2 DEF FramesInv, Stdio!StacksAreSound
<1>6. n \in 1 .. n
    BY <1>3
<1> QED
    BY <1>1, <1>2, <1>3, <1>4, <1>5, <1>6 DEF Stdio!Top

\* The innermost call moves on.
LEMMA TopMoves ==
    ASSUME FramesInv, NEW m \in Stdio!Msg, s3[m] = "run", NEW f \in Stdio!Frames, Stdio!Put(m, f),
           NEW b \in Nat, s5' = [s5 EXCEPT ![m] = b], s3' = s3,
           Stdio!FrameOk(f, Len(s4[m]), Len(s4[m]), b)
    PROVE  FramesInv'
<1>1. PICK n \in Nat \ {0} :
              /\ n = Len(s4[m]) /\ DOMAIN s4[m] = 1 .. n
              /\ s4[m] \in Seq(Stdio!Frames)
              /\ \A i \in 1 .. n : s4[m][i] \in Stdio!Frames /\ Stdio!FrameOk(s4[m][i], i, n, s5[m])
    BY TopIs
<1>2. PICK old \in Seq(Stdio!Frames) : old = s4[m]
    BY <1>1
<1>3. PICK st : st = [old EXCEPT ![n] = f]
    OBVIOUS
<1>4. /\ st \in Seq(Stdio!Frames) /\ Len(st) = n /\ DOMAIN st = 1 .. n /\ st[n] = f
      /\ \A i \in 1 .. n : i # n => st[i] = old[i]
    BY <1>1, <1>2, <1>3, LenProperties, ExceptSeq
<1>5. s4' = [s4 EXCEPT ![m] = st]
    BY <1>1, <1>2, <1>3 DEF Stdio!Put, FramesInv
<1>6. \A i \in 1 .. n : Stdio!FrameOk(st[i], i, n, b)
    <2>1. TAKE i \in 1 .. n
    <2>2. CASE i = n
        BY <1>1, <1>4, <2>2
    <2>3. CASE i # n
        <3>1. i < n
            BY <2>3
        <3> QED
            BY <1>1, <1>2, <1>4, <2>3, <3>1, BelowIsOk
    <2> QED
        BY <2>2, <2>3
<1>7. s3' = [s3 EXCEPT ![m] = "run"] /\ "run" \in Phases
    BY DEF FramesInv, Phases
<1>8. st # <<>>
    BY <1>1, <1>4, EmptySeq
<1> QED
    BY <1>4, <1>5, <1>6, <1>7, <1>8, FramesMove

\* Nothing moves.
LEMMA OrderStays ==
    ASSUME OrderInv, s1' = s1, s3' = s3
    PROVE  OrderInv'
BY DEF OrderInv, Stdio!ReadInOrder, Stdio!SerialCalls

\* A step that leaves the stacks, the frames and the calls alone keeps what is
\* said of the call frames of the stdio server.
LEMMA FramesStay ==
    ASSUME FramesInv, s3' = s3, s4' = s4, s5' = s5
    PROVE  FramesInv'
BY DEF FramesInv, Stdio!StacksAreSound

\* The innermost call alone moves on.
LEMMA OnlyMoves ==
    ASSUME StdioInv, NEW m \in Stdio!Msg, s3[m] = "run", NEW f \in Stdio!Frames, Stdio!Only(m, f),
           Stdio!FrameOk(f, Len(s4[m]), Len(s4[m]), s5[m])
    PROVE  StdioInv'
<1>1. Stdio!Put(m, f) /\ s5' = s5 /\ s3' = s3 /\ s1' = s1
    BY DEF Stdio!Only
<1>2. s5' = [s5 EXCEPT ![m] = s5[m]] /\ s5[m] \in Nat
    BY <1>1 DEF StdioInv, FramesInv
<1>3. FramesInv'
    BY <1>1, <1>2, TopMoves DEF StdioInv
<1>4. OrderInv'
    BY <1>1, OrderStays DEF StdioInv
<1> QED
    BY <1>3, <1>4 DEF StdioInv

\* mcp_before_call.
LEMMA BeforeCallStep ==
    ASSUME StdioInv, NEW m \in Stdio!Msg, NEW shorts \in BOOLEAN, Stdio!BeforeCall(m, shorts)
    PROVE  StdioInv'
<1>1. s3[m] = "run" /\ Stdio!Top(m).at = "before"
    BY DEF Stdio!BeforeCall, Stdio!At
<1>2. PICK n \in Nat \ {0} :
              /\ n = Len(s4[m]) /\ Stdio!Top(m) \in Stdio!Frames
              /\ Stdio!FrameOk(Stdio!Top(m), n, n, s5[m]) /\ s5[m] \in Nat
    BY <1>1, TopIs DEF StdioInv
<1>3. PICK t \in Stdio!Frames : t = Stdio!Top(m)
    BY <1>2
<1>4. PICK b \in Nat : b = s5[m]
    BY <1>2
<1>5. t.opened = 0 /\ t.torn = 0 /\ b = n - 1
    BY <1>1, <1>2, <1>3, <1>4 DEF Stdio!FrameOk
<1>6. CASE shorts
    <2>1. PICK f : f = [t EXCEPT !.at = "out", !.outer = b]
        OBVIOUS
    <2>2. f \in Stdio!Frames /\ f.at = "out" /\ f.outer = b /\ f.opened = t.opened /\ f.torn = t.torn
        BY <1>3, <1>4, <2>1 DEF Stdio!Frames
    <2>3. Stdio!FrameOk(f, n, n, b)
        BY <1>5, <2>2 DEF Stdio!FrameOk
    <2>4. Stdio!Only(m, f)
        BY <1>3, <1>4, <1>6, <2>1 DEF Stdio!BeforeCall
    <2> QED
        BY <1>1, <1>2, <1>4, <2>2, <2>3, <2>4, OnlyMoves
<1>7. CASE ~shorts
    <2>1. PICK a \in {"chain", "bind"} : a = IF t.route THEN "chain" ELSE "bind"
        OBVIOUS
    <2>2. PICK f : f = [t EXCEPT !.at = a, !.outer = b]
        OBVIOUS
    <2>3. f \in Stdio!Frames /\ f.at = a /\ f.outer = b /\ f.opened = t.opened /\ f.torn = t.torn
        BY <1>3, <1>4, <2>1, <2>2 DEF Stdio!Frames
    <2>4. Stdio!FrameOk(f, n, n, n)
        BY <1>5, <2>1, <2>3 DEF Stdio!FrameOk
    <2>5. Stdio!Put(m, f) /\ s5' = [s5 EXCEPT ![m] = n] /\ s3' = s3 /\ s1' = s1
        BY <1>2, <1>3, <1>4, <1>7, <2>1, <2>2 DEF Stdio!BeforeCall
    <2>6. FramesInv'
        BY <1>1, <1>2, <2>3, <2>4, <2>5, TopMoves DEF StdioInv
    <2>7. OrderInv'
        BY <2>5, OrderStays DEF StdioInv
    <2> QED
        BY <2>6, <2>7 DEF StdioInv
<1> QED
    BY <1>6, <1>7

\* The other steps within a call.
LEMMA WithinACall ==
    ASSUME StdioInv, NEW m \in Stdio!Msg,
           \/ \E x \in {"bind", "early", "raise"} : Stdio!RouteChain(m, x)
           \/ \E d \in 0..MaxDeps, ok \in BOOLEAN : Stdio!Bind(m, d, ok)
           \/ \E ok \in BOOLEAN : Stdio!ToolReturns(m, ok) \/ Stdio!After(m, ok)
           \/ \E how \in {"ends", "raises"} : Stdio!TeardownStep(m, how)
           \/ Stdio!TeardownsDone(m) \/ Stdio!RequestTeardown(m)
    PROVE  StdioInv'
<1>1. s3[m] = "run"
    BY DEF Stdio!RouteChain, Stdio!Bind, Stdio!ToolReturns, Stdio!After, Stdio!TeardownStep,
           Stdio!TeardownsDone, Stdio!RequestTeardown, Stdio!At
<1>2. PICK n \in Nat \ {0} :
              /\ n = Len(s4[m]) /\ Stdio!Top(m) \in Stdio!Frames
              /\ Stdio!FrameOk(Stdio!Top(m), n, n, s5[m]) /\ s5[m] \in Nat
    BY <1>1, TopIs DEF StdioInv
<1>3. PICK t \in Stdio!Frames : t = Stdio!Top(m)
    BY <1>2
<1>4. PICK b \in Nat : b = s5[m]
    BY <1>2
<1>5. Stdio!FrameOk(t, n, n, b)
    BY <1>2, <1>3, <1>4
<1>6. SUFFICES \E f \in Stdio!Frames : Stdio!Only(m, f) /\ Stdio!FrameOk(f, n, n, b)
    BY <1>1, <1>2, <1>4, OnlyMoves
<1>7. CASE \E x \in {"bind", "early", "raise"} : Stdio!RouteChain(m, x)
    <2>1. PICK x \in {"bind", "early", "raise"} : Stdio!RouteChain(m, x)
        BY <1>7
    <2>2. t.at = "chain"
        BY <1>3, <2>1 DEF Stdio!RouteChain, Stdio!At
    <2>3. CASE x = "raise"
        <3>1. PICK f : f = [t EXCEPT !.at = "teardown", !.exc = "error"]
            OBVIOUS
        <3>2. f \in Stdio!Frames /\ f.at = "teardown" /\ f.outer = t.outer
            BY <3>1 DEF Stdio!Frames
        <3>3. Stdio!FrameOk(f, n, n, b)
            BY <1>5, <2>2, <3>2 DEF Stdio!FrameOk
        <3> QED
            BY <1>3, <2>1, <2>3, <3>1, <3>2, <3>3 DEF Stdio!RouteChain
    <2>4. CASE x # "raise"
        <3>1. PICK a \in {"bind", "teardown"} : a = IF x = "bind" THEN "bind" ELSE "teardown"
            OBVIOUS
        <3>2. PICK f : f = [t EXCEPT !.at = a]
            OBVIOUS
        <3>3. f \in Stdio!Frames /\ f.at = a /\ f.outer = t.outer /\ f.opened = t.opened /\ f.torn = t.torn
            BY <3>1, <3>2 DEF Stdio!Frames
        <3>4. Stdio!FrameOk(f, n, n, b)
            BY <1>5, <2>2, <3>1, <3>3 DEF Stdio!FrameOk
        <3> QED
            BY <1>3, <2>1, <2>4, <3>1, <3>2, <3>3, <3>4 DEF Stdio!RouteChain
    <2> QED
        BY <2>3, <2>4
<1>8. CASE \E d \in 0..MaxDeps, ok \in BOOLEAN : Stdio!Bind(m, d, ok)
    <2>1. PICK d \in 0..MaxDeps, ok \in BOOLEAN : Stdio!Bind(m, d, ok)
        BY <1>8
    <2>2. PICK a \in {"tool", "teardown"}, e \in {"none", "error"} :
              a = (IF ok THEN "tool" ELSE "teardown") /\ e = (IF ok THEN "none" ELSE "error")
        OBVIOUS
    <2>3. t.at = "bind" /\ d \in Nat
        <3>1. t.at = "bind"
            BY <1>3, <2>1 DEF Stdio!Bind, Stdio!At
        <3>2. MaxDeps \in Nat
            BY ServicesAssumption DEF Stdio!StdioAssumption
        <3>3. d \in Nat
            BY <3>2
        <3> QED
            BY <3>1, <3>3
    <2>4. PICK f : f = [t EXCEPT !.opened = d, !.at = a, !.exc = e]
        OBVIOUS
    <2>5. f \in Stdio!Frames /\ f.at = a /\ f.outer = t.outer /\ f.torn = t.torn
        BY <2>2, <2>3, <2>4 DEF Stdio!Frames
    <2>6. Stdio!FrameOk(f, n, n, b)
        BY <1>5, <2>2, <2>3, <2>5 DEF Stdio!FrameOk
    <2>7. Stdio!Only(m, f)
        BY <1>3, <2>1, <2>2, <2>4 DEF Stdio!Bind
    <2> QED
        BY <2>5, <2>6, <2>7
<1>9. CASE \E ok \in BOOLEAN : Stdio!ToolReturns(m, ok) \/ Stdio!After(m, ok)
    <2>1. PICK ok \in BOOLEAN : Stdio!ToolReturns(m, ok) \/ Stdio!After(m, ok)
        BY <1>9
    <2>2. PICK a \in {"after", "teardown"}, e \in {"none", "error"} :
              Stdio!Only(m, [t EXCEPT !.at = a, !.exc = e])
        BY <1>3, <2>1 DEF Stdio!ToolReturns, Stdio!After
    <2>3. t.at \in {"tool", "after"}
        BY <1>3, <2>1 DEF Stdio!ToolReturns, Stdio!After, Stdio!At
    <2>4. PICK f : f = [t EXCEPT !.at = a, !.exc = e]
        OBVIOUS
    <2>5. f \in Stdio!Frames /\ f.at = a /\ f.outer = t.outer /\ f.opened = t.opened /\ f.torn = t.torn
        BY <2>4 DEF Stdio!Frames
    <2>6. Stdio!FrameOk(f, n, n, b)
        BY <1>5, <2>3, <2>5 DEF Stdio!FrameOk
    <2> QED
        BY <2>2, <2>4, <2>5, <2>6
<1>10. CASE \E how \in {"ends", "raises"} : Stdio!TeardownStep(m, how)
    <2>1. PICK how \in {"ends", "raises"} : Stdio!TeardownStep(m, how)
        BY <1>10
    <2>2. t.at = "teardown" /\ t.torn + 1 \in Nat
        <3>1. t.at = "teardown"
            BY <1>3, <2>1 DEF Stdio!TeardownStep, Stdio!At
        <3>2. t.torn \in Nat
            BY DEF Stdio!Frames
        <3> QED
            BY <3>1, <3>2
    <2>3. PICK x \in BOOLEAN : x = (t.failed \/ how = "raises")
        BY DEF Stdio!Frames
    <2>4. PICK f : f = [t EXCEPT !.torn = t.torn + 1, !.failed = x]
        OBVIOUS
    <2>5. f \in Stdio!Frames /\ f.at = t.at /\ f.outer = t.outer
        BY <2>2, <2>4 DEF Stdio!Frames
    <2>6. Stdio!FrameOk(f, n, n, b)
        BY <1>5, <2>2, <2>5 DEF Stdio!FrameOk
    <2>7. Stdio!Only(m, f)
        BY <1>3, <2>1, <2>3, <2>4 DEF Stdio!TeardownStep
    <2> QED
        BY <2>5, <2>6, <2>7
<1>11. CASE Stdio!TeardownsDone(m)
    <2>1. PICK a \in {"hooks", "out"}, e \in {"none", "error", "cancel"} :
              Stdio!Only(m, [t EXCEPT !.at = a, !.exc = e])
        <3>1. PICK a \in {"hooks", "out"} : a = IF t.route /\ ~t.failed THEN "hooks" ELSE "out"
            OBVIOUS
        <3>2. PICK e \in {"none", "error", "cancel"} : e = IF t.failed THEN "error" ELSE t.exc
            BY DEF Stdio!Frames
        <3> QED
            BY <1>3, <1>11, <3>1, <3>2 DEF Stdio!TeardownsDone
    <2>2. t.at = "teardown" /\ t.torn = t.opened
        BY <1>3, <1>11 DEF Stdio!TeardownsDone, Stdio!At
    <2>3. PICK f : f = [t EXCEPT !.at = a, !.exc = e]
        OBVIOUS
    <2>4. f \in Stdio!Frames /\ f.at = a /\ f.outer = t.outer /\ f.opened = t.opened /\ f.torn = t.torn
        BY <2>3 DEF Stdio!Frames
    <2>5. Stdio!FrameOk(f, n, n, b)
        BY <1>5, <2>2, <2>4 DEF Stdio!FrameOk
    <2> QED
        BY <2>1, <2>3, <2>4, <2>5
<1>12. CASE Stdio!RequestTeardown(m)
    <2>1. t.at = "hooks"
        BY <1>3, <1>12 DEF Stdio!RequestTeardown, Stdio!At
    <2>2. PICK f : f = [t EXCEPT !.at = "out", !.hooks = TRUE]
        OBVIOUS
    <2>3. f \in Stdio!Frames /\ f.at = "out" /\ f.outer = t.outer /\ f.opened = t.opened /\ f.torn = t.torn
        BY <2>2 DEF Stdio!Frames
    <2>4. Stdio!FrameOk(f, n, n, b)
        BY <1>5, <2>1, <2>3 DEF Stdio!FrameOk
    <2>5. Stdio!Only(m, f)
        BY <1>3, <1>12, <2>2 DEF Stdio!RequestTeardown
    <2> QED
        BY <2>3, <2>4, <2>5
<1> QED
    BY <1>7, <1>8, <1>9, <1>10, <1>11, <1>12

\* A cancellation is delivered.
LEMMA CancelledStep ==
    ASSUME StdioInv, NEW m \in Stdio!Msg, Stdio!Cancelled(m)
    PROVE  StdioInv'
<1>1. s3[m] = "run" /\ UNCHANGED <<s1, s3, s5>>
    BY DEF Stdio!Cancelled
<1>2. OrderInv'
    BY <1>1, OrderStays DEF StdioInv
<1>3. CASE m \in s6
    BY <1>1, <1>2, <1>3, FramesStay DEF StdioInv, Stdio!Cancelled
<1>4. CASE m \notin s6
    <2>1. PICK n \in Nat \ {0} :
              /\ n = Len(s4[m]) /\ Stdio!Top(m) \in Stdio!Frames
              /\ Stdio!FrameOk(Stdio!Top(m), n, n, s5[m]) /\ s5[m] \in Nat
        BY <1>1, TopIs DEF StdioInv
    <2>2. PICK t \in Stdio!Frames : t = Stdio!Top(m)
        BY <2>1
    <2>3. PICK b \in Nat : b = s5[m]
        BY <2>1
    <2>4. PICK a \in {"out", "teardown"} : a = IF t.at = "before" THEN "out" ELSE "teardown"
        OBVIOUS
    <2>5. PICK o \in Nat : o = IF t.at = "before" THEN b ELSE t.outer
        BY DEF Stdio!Frames
    <2>6. PICK f : f = [t EXCEPT !.exc = "cancel", !.at = a, !.outer = o]
        OBVIOUS
    <2>7. /\ f \in Stdio!Frames /\ f.at = a /\ f.outer = o /\ f.exc = "cancel"
          /\ f.opened = t.opened /\ f.torn = t.torn
        BY <2>4, <2>5, <2>6 DEF Stdio!Frames
    <2>8. Stdio!FrameOk(t, n, n, b)
        BY <2>1, <2>2, <2>3
    <2>9. o = n - 1
        BY <2>5, <2>8 DEF Stdio!FrameOk
    <2>10. Stdio!FrameOk(f, n, n, b)
        BY <2>4, <2>7, <2>8, <2>9 DEF Stdio!FrameOk
    <2>11. Stdio!Put(m, f)
        BY <1>4, <2>2, <2>3, <2>4, <2>5, <2>6 DEF Stdio!Cancelled
    <2>12. s5' = [s5 EXCEPT ![m] = b]
        BY <1>1, <2>3 DEF StdioInv, FramesInv
    <2>13. FramesInv'
        BY <1>1, <2>1, <2>7, <2>10, <2>11, <2>12, TopMoves DEF StdioInv
    <2> QED
        BY <1>2, <2>13 DEF StdioInv
<1> QED
    BY <1>3, <1>4

\* A cancellation leaves a teardown or ends a teardown hook.
LEMMA CancelledOut ==
    ASSUME StdioInv, NEW m \in Stdio!Msg, s3[m] = "run", UNCHANGED <<s1, s3, s5>>,
           NEW f \in Stdio!Frames, Stdio!Put(m, f), f.at = "out", f.exc = "cancel",
           f.outer = Stdio!Top(m).outer, Stdio!Top(m).at \in {"hooks", "teardown"},
           f.cut \/ (Stdio!Top(m).at = "hooks" /\ f.torn = Stdio!Top(m).torn
                     /\ f.opened = Stdio!Top(m).opened)
    PROVE  StdioInv'
<1>1. OrderInv'
    BY OrderStays DEF StdioInv
<1>2. PICK n \in Nat \ {0} :
          n = Len(s4[m]) /\ Stdio!FrameOk(Stdio!Top(m), n, n, s5[m]) /\ s5[m] \in Nat
    BY TopIs DEF StdioInv
<1>3. Stdio!FrameOk(f, n, n, s5[m])
    BY <1>2 DEF Stdio!FrameOk
<1>4. s5' = [s5 EXCEPT ![m] = s5[m]]
    BY DEF StdioInv, FramesInv
<1>5. FramesInv'
    BY <1>2, <1>3, <1>4, TopMoves DEF StdioInv
<1> QED
    BY <1>1, <1>5 DEF StdioInv

\* A teardown lets a cancellation through.
LEMMA CancelledTeardownStep ==
    ASSUME StdioInv, NEW m \in Stdio!Msg, Stdio!CancelledTeardown(m)
    PROVE  StdioInv'
<1>1. s3[m] = "run" /\ Stdio!Top(m).at = "teardown" /\ UNCHANGED <<s1, s3, s5>>
    BY DEF Stdio!CancelledTeardown, Stdio!At
<1>2. PICK t \in Stdio!Frames : t = Stdio!Top(m)
    BY <1>1, TopIs DEF StdioInv
<1>3. t.torn + 1 \in Nat
    BY DEF Stdio!Frames
<1>4. PICK f : f = [t EXCEPT !.torn = t.torn + 1, !.at = "out", !.exc = "cancel", !.cut = TRUE]
    OBVIOUS
<1>5. f \in Stdio!Frames /\ f.at = "out" /\ f.exc = "cancel" /\ f.cut /\ f.outer = t.outer
    BY <1>3, <1>4 DEF Stdio!Frames
<1>6. Stdio!Put(m, f)
    BY <1>2, <1>4 DEF Stdio!CancelledTeardown
<1> QED
    BY <1>1, <1>2, <1>5, <1>6, CancelledOut

\* A cancellation is delivered past the teardowns.
LEMMA CancelledAfterStep ==
    ASSUME StdioInv, NEW m \in Stdio!Msg, Stdio!CancelledAfter(m)
    PROVE  StdioInv'
<1>1. CASE Stdio!At(m, "hooks") /\ Stdio!Put(m, [Stdio!Top(m) EXCEPT !.at = "out", !.exc = "cancel"])
           /\ UNCHANGED s3
    <2>1. s3[m] = "run" /\ Stdio!Top(m).at = "hooks" /\ UNCHANGED <<s1, s3, s5>>
        BY <1>1 DEF Stdio!CancelledAfter, Stdio!At
    <2>2. PICK t \in Stdio!Frames : t = Stdio!Top(m)
        BY <2>1, TopIs DEF StdioInv
    <2>3. PICK f : f = [t EXCEPT !.at = "out", !.exc = "cancel"]
        OBVIOUS
    <2>4. /\ f \in Stdio!Frames /\ f.at = "out" /\ f.exc = "cancel" /\ f.outer = t.outer
          /\ f.torn = t.torn /\ f.opened = t.opened
        BY <2>3 DEF Stdio!Frames
    <2>5. Stdio!Put(m, f)
        BY <1>1, <2>2, <2>3
    <2> QED
        BY <2>1, <2>2, <2>4, <2>5, CancelledOut
<1>2. CASE s3[m] \in {"drain", "emit"} /\ s3' = [s3 EXCEPT ![m] = "dropped"] /\ UNCHANGED s4
    <2>1. UNCHANGED <<s1, s5>>
        BY DEF Stdio!CancelledAfter
    <2>2. "dropped" \in Phases \ {"unread", "queued", "start", "run"}
        BY DEF Phases, Stdio!Ended
    <2>3. OrderInv'
        BY <1>2, <2>1, <2>2, PhaseMoves DEF StdioInv
    <2>4. FramesInv'
        BY <1>2, <2>1, <2>2, NoFrames DEF StdioInv
    <2> QED
        BY <2>3, <2>4 DEF StdioInv
<1> QED
    BY <1>1, <1>2 DEF Stdio!CancelledAfter

\* A new frame.
LEMMA FrameIs ==
    ASSUME NEW r \in BOOLEAN
    PROVE  /\ Stdio!Frame(r) \in Stdio!Frames /\ Stdio!Frame(r).at = "before"
           /\ Stdio!Frame(r).opened = 0 /\ Stdio!Frame(r).torn = 0
BY DEF Stdio!Frame, Stdio!Frames

\* What may start has not run.
LEMMA StartsFresh ==
    ASSUME StdioInv, NEW m \in Stdio!Msg, Stdio!MayStart(m)
    PROVE  s3[m] \in {"start", "queued"} /\ s4[m] = <<>> /\ s5[m] = 0
BY DEF StdioInv, FramesInv, Stdio!MayStart, Stdio!StacksAreSound

\* tools/call.
LEMMA StartCallStep ==
    ASSUME StdioInv, NEW m \in Stdio!Msg, NEW r \in BOOLEAN, Stdio!StartCall(m, r)
    PROVE  StdioInv'
<1>1. /\ s3' = [s3 EXCEPT ![m] = "run"] /\ s1' = s1 /\ s5' = s5 /\ Stdio!MayStart(m)
      /\ s4' = [s4 EXCEPT ![m] = <<Stdio!Frame(r)>>]
    BY DEF Stdio!StartCall
<1>2. "run" \in Phases \ {"unread", "queued", "start"}
    BY DEF Phases
<1>3. OrderInv'
    BY <1>1, <1>2, PhaseMoves DEF StdioInv
<1>4. s5[m] = 0
    BY <1>1, StartsFresh
<1>5. s5' = [s5 EXCEPT ![m] = 0]
    BY <1>1, <1>4 DEF StdioInv, FramesInv
<1>6. PICK g \in Stdio!Frames : g = Stdio!Frame(r)
    BY FrameIs
<1>7. Stdio!FrameOk(g, 1, 1, 0)
    BY <1>6, FrameIs DEF Stdio!FrameOk
<1>8. PICK st : st = <<g>>
    OBVIOUS
<1>9. Len(st) = 1 /\ DOMAIN st = {1} /\ st[1] = g /\ st # <<>>
    BY <1>8
<1>9a. st \in Seq(Stdio!Frames)
    BY <1>8
<1>10. \A i \in DOMAIN st : Stdio!FrameOk(st[i], i, Len(st), 0)
    BY <1>7, <1>9
<1>11. s4' = [s4 EXCEPT ![m] = st]
    BY <1>1, <1>6, <1>8
<1>12. FramesInv'
    BY <1>1, <1>2, <1>5, <1>9, <1>10, <1>11, <1>9a, FramesMove DEF StdioInv
<1> QED
    BY <1>3, <1>12 DEF StdioInv

\* sample_with_tools calls a tool.
LEMMA RunSampledToolStep ==
    ASSUME StdioInv, NEW m \in Stdio!Msg, Stdio!RunSampledTool(m)
    PROVE  StdioInv'
<1>1. /\ s3[m] = "run" /\ Stdio!Top(m).at = "tool" /\ UNCHANGED <<s1, s3, s5>>
      /\ s4' = [s4 EXCEPT ![m] = Append([s4[m] EXCEPT ![Len(s4[m])].rounds = @ + 1], Stdio!Frame(FALSE))]
    BY DEF Stdio!RunSampledTool, Stdio!At
<1>2. OrderInv'
    BY <1>1, OrderStays DEF StdioInv
<1>3. PICK n \in Nat \ {0} :
              /\ n = Len(s4[m]) /\ DOMAIN s4[m] = 1 .. n /\ Stdio!Top(m) = s4[m][n]
              /\ s4[m] \in Seq(Stdio!Frames) /\ Stdio!Top(m) \in Stdio!Frames
              /\ Stdio!FrameOk(Stdio!Top(m), n, n, s5[m]) /\ s5[m] \in Nat
              /\ \A i \in 1 .. n : s4[m][i] \in Stdio!Frames /\ Stdio!FrameOk(s4[m][i], i, n, s5[m])
    BY <1>1, TopIs DEF StdioInv
<1>4. PICK t \in Stdio!Frames : t = Stdio!Top(m)
    BY <1>3
<1>5. PICK b \in Nat : b = s5[m]
    BY <1>3
<1>6. b = n /\ t.outer = n - 1
    BY <1>1, <1>3, <1>4, <1>5 DEF Stdio!FrameOk
<1>7. PICK f : f = [t EXCEPT !.rounds = t.rounds + 1]
    OBVIOUS
<1>8. f \in Stdio!Frames /\ f.at = t.at /\ f.outer = t.outer /\ f.torn = t.torn
    BY <1>7 DEF Stdio!Frames
<1>9. PICK old \in Seq(Stdio!Frames) : old = s4[m]
    BY <1>3
<1>10. PICK below : below = [old EXCEPT ![n] = f]
    OBVIOUS
<1>11. /\ below \in Seq(Stdio!Frames) /\ Len(below) = n /\ DOMAIN below = 1 .. n /\ below[n] = f
       /\ \A i \in 1 .. n : i # n => below[i] = old[i]
    BY <1>3, <1>8, <1>9, <1>10, LenProperties, ExceptSeq
<1>12. PICK g \in Stdio!Frames : g = Stdio!Frame(FALSE)
    BY FrameIs
<1>13. PICK st : st = Append(below, g)
    OBVIOUS
<1>14. /\ st \in Seq(Stdio!Frames) /\ Len(st) = n + 1 /\ st[n + 1] = g
       /\ \A i \in 1 .. n : st[i] = below[i]
    BY <1>11, <1>13, AppendProperties
<1>15. DOMAIN st = 1 .. n + 1
    BY <1>14, LenProperties
<1>16. \A i \in 1 .. n + 1 : Stdio!FrameOk(st[i], i, n + 1, b)
    <2>1. TAKE i \in 1 .. n + 1
    <2>2. CASE i = n + 1
        <3>1. g.at = "before" /\ g.opened = 0 /\ g.torn = 0
            BY <1>12, FrameIs
        <3> QED
            BY <1>6, <1>14, <2>2, <3>1 DEF Stdio!FrameOk
    <2>3. CASE i = n
        <3>1. st[i] = f /\ f.at = "tool"
            BY <1>1, <1>4, <1>8, <1>11, <1>14, <2>3
        <3>2. Stdio!FrameOk(t, n, n, b)
            BY <1>3, <1>4, <1>5
        <3>3. f.torn = 0
            BY <1>1, <1>4, <1>8, <3>2 DEF Stdio!FrameOk
        <3> QED
            BY <1>6, <1>8, <2>3, <3>1, <3>3 DEF Stdio!FrameOk
    <2>4. CASE i < n
        <3>1. st[i] = s4[m][i] /\ Stdio!FrameOk(s4[m][i], i, n, b) /\ i \in 1 .. n
            BY <1>3, <1>5, <1>9, <1>11, <1>14, <2>4
        <3>2. s4[m][i].at = "tool"
            BY <2>4, <3>1 DEF Stdio!FrameOk
        <3> QED
            BY <2>4, <3>1, <3>2 DEF Stdio!FrameOk
    <2> QED
        BY <2>2, <2>3, <2>4
<1>17. s4' = [s4 EXCEPT ![m] = st]
    BY <1>1, <1>3, <1>4, <1>7, <1>9, <1>10, <1>12, <1>13
<1>18. s3' = [s3 EXCEPT ![m] = "run"] /\ "run" \in Phases /\ s5' = [s5 EXCEPT ![m] = b]
    BY <1>1, <1>5 DEF StdioInv, FramesInv, Phases
<1>19. st # <<>>
    BY <1>14, EmptySeq
<1>20. FramesInv'
    <2>1. FramesInv /\ st \in Seq(Stdio!Frames)
        BY <1>14 DEF StdioInv
    <2>2. \A i \in DOMAIN st : Stdio!FrameOk(st[i], i, Len(st), b)
        BY <1>14, <1>15, <1>16
    <2> QED
        BY <1>17, <1>18, <1>19, <2>1, <2>2, FramesMove
<1> QED
    BY <1>2, <1>20 DEF StdioInv

\* A call ends, and the one that made it goes on or is cancelled in turn.
LEMMA InvokeReturnsStep ==
    ASSUME StdioInv, NEW m \in Stdio!Msg, Stdio!InvokeReturns(m)
    PROVE  StdioInv'
<1>1. s3[m] = "run" /\ Stdio!Top(m).at = "out" /\ s1' = s1
    BY DEF Stdio!InvokeReturns, Stdio!At
<1>2. PICK n \in Nat \ {0} :
              /\ n = Len(s4[m]) /\ DOMAIN s4[m] = 1 .. n /\ Stdio!Top(m) = s4[m][n]
              /\ s4[m] \in Seq(Stdio!Frames) /\ Stdio!Top(m) \in Stdio!Frames
              /\ Stdio!FrameOk(Stdio!Top(m), n, n, s5[m]) /\ s5[m] \in Nat
              /\ \A i \in 1 .. n : s4[m][i] \in Stdio!Frames /\ Stdio!FrameOk(s4[m][i], i, n, s5[m])
    BY <1>1, TopIs DEF StdioInv
<1>3. PICK t \in Stdio!Frames : t = Stdio!Top(m)
    BY <1>2
<1>4. t.outer = n - 1
    BY <1>1, <1>2, <1>3 DEF Stdio!FrameOk
<1>5. PICK b \in Nat : b = n - 1
    OBVIOUS
<1>6. PICK rest : rest = SubSeq(s4[m], 1, n - 1)
    OBVIOUS
<1>7. rest \in Seq(Stdio!Frames) /\ Len(rest) = b /\ \A i \in 1 .. b : rest[i] = s4[m][i]
    BY <1>2, <1>5, <1>6, SubSeqProperties
<1>8. DOMAIN rest = 1 .. b /\ (rest = <<>> <=> b = 0)
    BY <1>7, LenProperties, EmptySeq
<1>9. s5' = [s5 EXCEPT ![m] = b]
    BY <1>3, <1>4, <1>5 DEF Stdio!InvokeReturns
<1>10. PICK p \in {"run", "dropped", "drain"} :
            p = IF rest # <<>> THEN "run" ELSE IF t.exc = "cancel" THEN "dropped" ELSE "drain"
    OBVIOUS
<1>11. s3' = [s3 EXCEPT ![m] = p] /\ p \in Phases \ {"unread", "queued", "start"}
    BY <1>2, <1>3, <1>6, <1>10 DEF Stdio!InvokeReturns, Phases, Stdio!Ended
<1>12. OrderInv'
    BY <1>1, <1>11, PhaseMoves DEF StdioInv
<1>13. ASSUME NEW i \in 1 .. b
       PROVE  rest[i].at = "tool" /\ Stdio!FrameOk(rest[i], i, n, s5[m]) /\ i < n /\ rest[i] \in Stdio!Frames
    <2>1. rest[i] = s4[m][i] /\ i < n /\ i \in 1 .. n
        BY <1>5, <1>7
    <2>2. Stdio!FrameOk(s4[m][i], i, n, s5[m]) /\ s4[m][i] \in Stdio!Frames
        BY <1>2, <2>1
    <2> QED
        BY <2>1, <2>2 DEF Stdio!FrameOk
<1>14. \A i \in 1 .. b : Stdio!FrameOk(rest[i], i, b, b)
    <2>1. TAKE i \in 1 .. b
    <2>2. rest[i].outer = i - 1 /\ rest[i].torn = 0 /\ rest[i].at = "tool"
        BY <1>13 DEF Stdio!FrameOk
    <2> QED
        BY <2>2 DEF Stdio!FrameOk
<1>15. CASE rest = <<>> \/ t.exc # "cancel"
    <2>1. s4' = [s4 EXCEPT ![m] = rest]
        BY <1>2, <1>3, <1>6, <1>15 DEF Stdio!InvokeReturns
    <2>2. p = "run" <=> rest # <<>>
        BY <1>10
    <2>3. FramesInv'
        BY <1>7, <1>8, <1>9, <1>11, <1>14, <2>1, <2>2, FramesMove DEF StdioInv
    <2> QED
        BY <1>12, <2>3 DEF StdioInv
<1>16. CASE rest # <<>> /\ t.exc = "cancel"
    <2>1. b \in 1 .. b
        BY <1>8, <1>16
    <2>2. PICK u \in Stdio!Frames : u = rest[b]
        BY <1>13, <2>1
    <2>3. PICK f : f = [u EXCEPT !.exc = "cancel", !.at = "teardown"]
        OBVIOUS
    <2>4. f \in Stdio!Frames /\ f.at = "teardown" /\ f.outer = u.outer
        BY <2>3 DEF Stdio!Frames
    <2>5. PICK st : st = [rest EXCEPT ![b] = f]
        OBVIOUS
    <2>6. /\ st \in Seq(Stdio!Frames) /\ Len(st) = b /\ DOMAIN st = 1 .. b /\ st[b] = f
          /\ \A i \in 1 .. b : i # b => st[i] = rest[i]
        BY <1>7, <1>8, <2>1, <2>4, <2>5, LenProperties, ExceptSeq
    <2>7. s4' = [s4 EXCEPT ![m] = st]
        <3>1. s4' = [s4 EXCEPT ![m] = [rest EXCEPT ![Len(rest)].exc = "cancel", ![Len(rest)].at = "teardown"]]
            BY <1>2, <1>3, <1>6, <1>16 DEF Stdio!InvokeReturns
        <3>2. [rest EXCEPT ![b].exc = "cancel", ![b].at = "teardown"] = st
            BY <1>8, <2>1, <2>2, <2>3, <2>5 DEF Stdio!Frames
        <3> QED
            BY <1>7, <3>1, <3>2
    <2>8. u.outer = b - 1
        BY <1>14, <2>1, <2>2 DEF Stdio!FrameOk
    <2>9. Stdio!FrameOk(f, b, b, b)
        BY <2>4, <2>8 DEF Stdio!FrameOk
    <2>10. \A i \in 1 .. b : Stdio!FrameOk(st[i], i, b, b)
        BY <1>14, <2>6, <2>9
    <2>11. p = "run" /\ st # <<>>
        BY <1>10, <1>16, <2>1, <2>6, EmptySeq
    <2>12. FramesInv'
        BY <1>9, <1>11, <2>6, <2>7, <2>10, <2>11, FramesMove DEF StdioInv
    <2> QED
        BY <1>12, <2>12 DEF StdioInv
<1> QED
    BY <1>15, <1>16

\* The steps of a dispatch outside its calls.
LEMMA OutsideACall ==
    ASSUME StdioInv, NEW m \in Stdio!Msg,
           \/ \E k \in {"call", "other", "ping", "cancel"} : Stdio!Read(m, k)
           \/ Stdio!resolve_reply(m) \/ Stdio!Ask(m) \/ Stdio!CancelledLate(m)
           \/ Stdio!Answer(m) \/ Stdio!Emit(m) \/ Stdio!ShapeResult(m)
           \/ \E t \in Stdio!Msg : Stdio!HandleCancelled(m, t)
    PROVE  StdioInv'
<1>1. CASE \E k \in {"call", "other", "ping", "cancel"} : Stdio!Read(m, k)
    <2>1. PICK k \in {"call", "other", "ping", "cancel"} : Stdio!Read(m, k)
        BY <1>1
    <2>2. PICK p \in {"queued", "start"} : s3' = [s3 EXCEPT ![m] = p]
        BY <2>1 DEF Stdio!Read
    <2>3. s3[m] # "run" /\ UNCHANGED <<s4, s5>>
        BY <2>1 DEF Stdio!Read, Stdio!Unread
    <2>4. FramesInv'
        BY <2>2, <2>3, NoFrames DEF StdioInv, Phases
    <2> QED
        BY <2>1, <2>4, ReadKeepsOrder DEF StdioInv
<1>2. CASE Stdio!resolve_reply(m) \/ Stdio!Ask(m) \/ Stdio!CancelledLate(m)
    <2>1. UNCHANGED <<s1, s3, s4, s5>>
        BY <1>2 DEF Stdio!resolve_reply, Stdio!Ask, Stdio!CancelledLate
    <2> QED
        BY <2>1, OrderStays, FramesStay DEF StdioInv
<1>3. CASE Stdio!Answer(m) \/ Stdio!Emit(m) \/ Stdio!ShapeResult(m)
           \/ \E t \in Stdio!Msg : Stdio!HandleCancelled(m, t)
    <2>1. PICK p \in {"emit", "done"} : s3' = [s3 EXCEPT ![m] = p]
        BY <1>3 DEF Stdio!Answer, Stdio!Emit, Stdio!ShapeResult, Stdio!HandleCancelled
    <2>2. UNCHANGED <<s1, s4, s5>> /\ (Stdio!MayStart(m) \/ s3[m] \in {"drain", "emit"})
        BY <1>3 DEF Stdio!Answer, Stdio!Emit, Stdio!ShapeResult, Stdio!HandleCancelled
    <2>3. s3[m] # "run" /\ p \in Phases \ {"unread", "queued", "start"} /\ p # "run"
        BY <2>2 DEF Stdio!MayStart, Phases, Stdio!Ended
    <2>4. OrderInv'
        BY <2>1, <2>2, <2>3, PhaseMoves DEF StdioInv
    <2>5. FramesInv'
        BY <2>1, <2>2, <2>3, NoFrames DEF StdioInv
    <2> QED
        BY <2>4, <2>5 DEF StdioInv
<1> QED
    BY <1>1, <1>2, <1>3

\* Every step of the transport keeps the invariant.
LEMMA StdioStep ==
    ASSUME StdioInv, Stdio!Next
    PROVE  StdioInv'
<1>1. CASE Stdio!EndOfInput \/ Stdio!ServeEnds
    <2>1. UNCHANGED <<s1, s3, s4, s5>>
        BY <1>1 DEF Stdio!EndOfInput, Stdio!ServeEnds
    <2> QED
        BY <2>1, OrderStays, FramesStay DEF StdioInv
<1>2. ASSUME NEW m \in Stdio!Msg,
             \/ \E k \in {"call", "other", "ping", "cancel"} : Stdio!Read(m, k)
             \/ Stdio!resolve_reply(m) \/ Stdio!Ask(m) \/ Stdio!RunSampledTool(m) \/ Stdio!DispatchStep(m)
      PROVE  StdioInv'
    <2>1. CASE \/ \E k \in {"call", "other", "ping", "cancel"} : Stdio!Read(m, k)
               \/ Stdio!resolve_reply(m) \/ Stdio!Ask(m)
        BY <2>1, OutsideACall
    <2>2. CASE Stdio!RunSampledTool(m)
        BY <2>2, RunSampledToolStep
    <2>3. CASE Stdio!DispatchStep(m)
        <3>1. CASE Stdio!Answer(m) \/ Stdio!Emit(m) \/ Stdio!CancelledLate(m) \/ Stdio!ShapeResult(m)
                   \/ \E t \in Stdio!Msg \ {m} : Stdio!HandleCancelled(m, t)
            BY <3>1, OutsideACall
        <3>2. CASE Stdio!Cancelled(m)
            BY <3>2, CancelledStep
        <3>3. CASE Stdio!InvokeReturns(m)
            BY <3>3, InvokeReturnsStep
        <3>4. CASE \E b \in BOOLEAN : Stdio!StartCall(m, b)
            BY <3>4, StartCallStep
        <3>5. CASE \E b \in BOOLEAN : Stdio!BeforeCall(m, b)
            BY <3>5, BeforeCallStep
        <3>6. CASE \/ \E x \in {"bind", "early", "raise"} : Stdio!RouteChain(m, x)
                   \/ \E d \in 0..MaxDeps, ok \in BOOLEAN : Stdio!Bind(m, d, ok)
                   \/ \E ok \in BOOLEAN : Stdio!ToolReturns(m, ok) \/ Stdio!After(m, ok)
                   \/ \E how \in {"ends", "raises"} : Stdio!TeardownStep(m, how)
                   \/ Stdio!TeardownsDone(m) \/ Stdio!RequestTeardown(m)
            BY <3>6, WithinACall
        <3>7. CASE Stdio!CancelledAfter(m) \/ Stdio!CancelledTeardown(m)
            BY <3>7, CancelledAfterStep, CancelledTeardownStep
        <3> QED
            BY <2>3, <3>1, <3>2, <3>3, <3>4, <3>5, <3>6, <3>7 DEF Stdio!DispatchStep
    <2> QED
        BY <1>2, <2>1, <2>2, <2>3
<1> QED
    BY <1>1, <1>2 DEF Stdio!Next

\* The transport starts idle.
LEMMA StdioInit == Stdio!Init => StdioInv
<1>1. SUFFICES ASSUME Stdio!Init PROVE StdioInv
    OBVIOUS
<1>2. /\ s1 = [m \in Stdio!Msg |-> "none"] /\ s3 = [m \in Stdio!Msg |-> "unread"]
      /\ s4 = [m \in Stdio!Msg |-> <<>>] /\ s5 = [m \in Stdio!Msg |-> 0]
    BY <1>1 DEF Stdio!Init
<1>3. OrderInv
    BY <1>2 DEF OrderInv, Phases, Stdio!ReadInOrder, Stdio!SerialCalls, Stdio!Serial
<1>4. FramesInv
    BY <1>2 DEF FramesInv, Phases, Stdio!StacksAreSound
<1> QED
    BY <1>3, <1>4 DEF StdioInv

\* The properties of a tool call.
LEMMA CallsAreSound == StdioInv => Stdio!SerialCalls /\ Stdio!ContextIsOwn /\ Stdio!OpenedAreTorn
<1>1. SUFFICES ASSUME StdioInv PROVE Stdio!ContextIsOwn /\ Stdio!OpenedAreTorn
    BY DEF StdioInv, OrderInv
<1>2. \A m \in Stdio!Msg : \A i \in DOMAIN s4[m] : Stdio!FrameOk(s4[m][i], i, Len(s4[m]), s5[m])
    BY <1>1 DEF StdioInv, FramesInv, Stdio!StacksAreSound
<1>3. Stdio!ContextIsOwn
    BY <1>2 DEF Stdio!ContextIsOwn, Stdio!FrameOk
<1>4. Stdio!OpenedAreTorn
    BY <1>2 DEF Stdio!OpenedAreTorn, Stdio!FrameOk
<1> QED
    BY <1>3, <1>4

-----------------------------------------------------------------------------
(* The test clients: lock, cl, tidy, opened and ex are s1 to s5.            *)

ClientsInv == Test!TypeOK /\ Test!OldestHoldsLock /\ Test!PollsAreTrue

Exchange == [at : {"none", "handler"}, left : Nat, done : BOOLEAN, gone : BOOLEAN,
             finished : BOOLEAN, poll : {"none", "gone", "quiet"}]

\* A step of the exchange.
LEMMA ExchangeMoves ==
    ASSUME ClientsInv, UNCHANGED <<s1, s2, s3, s4>>, s5' \in Exchange,
           (s5'.poll = "gone" \/ s5'.gone) => s5'.finished
    PROVE  ClientsInv'
<1>1. Test!TypeOK'
    BY DEF ClientsInv, Test!TypeOK, Exchange
<1>2. Test!OldestHoldsLock'
    BY DEF ClientsInv, Test!OldestHoldsLock
<1>3. Test!PollsAreTrue'
    BY DEF Test!PollsAreTrue
<1> QED
    BY <1>1, <1>2, <1>3 DEF ClientsInv

\* The test client has no request in flight before its first one.
LEMMA NoExchangeIs ==
    /\ Test!NoExchange \in Exchange /\ Test!NoExchange.poll = "none" /\ Test!NoExchange.gone = FALSE
    /\ Test!NoExchange.finished = FALSE
BY DEF Test!NoExchange, Exchange

\* Clients come and go, the exchange stands.
LEMMA ClientsMove ==
    ASSUME ClientsInv, s5' = s5, s1' \in BOOLEAN, s3' \in BOOLEAN, s4' \in Seq(TestUsers),
           s2' \in [TestUsers -> Test!Client], Test!OldestHoldsLock'
    PROVE  ClientsInv'
<1>1. Test!TypeOK'
    BY DEF ClientsInv, Test!TypeOK
<1>2. Test!PollsAreTrue'
    BY DEF ClientsInv, Test!PollsAreTrue
<1> QED
    BY <1>1, <1>2 DEF ClientsInv

\* Clients closed out of turn are outside what is said of the oldest one.
LEMMA UntidyHolds == ASSUME s3' = FALSE PROVE Test!OldestHoldsLock'
BY DEF Test!OldestHoldsLock

\* Entering a test client keeps the invariant: the oldest client open is the one
\* that found the startup lock free.
LEMMA StepOpen == ASSUME ClientsInv, NEW c \in TestUsers, Test!Open(c) PROVE ClientsInv'
<1>1. /\ s1 \in BOOLEAN /\ s3 \in BOOLEAN /\ s4 \in Seq(TestUsers)
      /\ s2 \in [TestUsers -> Test!Client]
    BY DEF ClientsInv, Test!TypeOK
<1>2. s2[c].st = "new" /\ s1' = FALSE /\ s5' = s5
    BY DEF Test!Open
<1>3. CASE /\ s2' = [s2 EXCEPT ![c] = [st |-> "open", prior |-> {s1}, ran |-> TRUE]]
           /\ s4' = Append(s4, c) /\ s3' = s3
    <2>1. PICK x : x = [st |-> "open", prior |-> {s1}, ran |-> TRUE]
        OBVIOUS
    <2>2. x \in Test!Client /\ x.st = "open" /\ x.prior = {s1}
        BY <1>1, <2>1 DEF Test!Client
    <2>3. /\ s2' \in [TestUsers -> Test!Client] /\ s2'[c] = x
          /\ \A d \in TestUsers : d # c => s2'[d] = s2[d]
        BY <1>1, <1>3, <2>1, <2>2
    <2>4. PICK n \in Nat : n = Len(s4) /\ DOMAIN s4 = 1 .. n
        BY <1>1, LenProperties
    <2>5. /\ s4' \in Seq(TestUsers) /\ DOMAIN s4' = 1 .. (n + 1) /\ s4'[n + 1] = c
          /\ \A i \in 1 .. n : s4'[i] = s4[i]
        BY <1>1, <1>3, <2>4, AppendProperties, LenProperties
    <2>6. ASSUME s3 PROVE Test!OldestHoldsLock'
        <3>1. /\ s1 <=> s4 = <<>>
              /\ \A i \in 1 .. n : s2[s4[i]].st = "open" /\ s2[s4[i]].prior = {i = 1}
              /\ \A i, j \in 1 .. n : s4[i] = s4[j] => i = j
              /\ \A d \in TestUsers : /\ s2[d].st = "open" => \E i \in 1 .. n : s4[i] = d
                                      /\ s2[d].st \notin {"failed", "raised"}
                                      /\ s2[d].st = "closed" => s2[d].prior = {}
            <4>1. /\ s1 <=> s4 = <<>>
                  /\ \A i \in DOMAIN s4 : s2[s4[i]].st = "open" /\ s2[s4[i]].prior = {i = 1}
                  /\ \A i, j \in DOMAIN s4 : s4[i] = s4[j] => i = j
                  /\ \A d \in TestUsers : /\ s2[d].st = "open" => \E i \in DOMAIN s4 : s4[i] = d
                                          /\ s2[d].st \notin {"failed", "raised"}
                                          /\ s2[d].st = "closed" => s2[d].prior = {}
                BY <2>6 DEF ClientsInv, Test!OldestHoldsLock
            <4>2. DOMAIN s4 = 1 .. n
                BY <2>4
            <4> QED
                BY <4>1, <4>2
        <3>2. \A i \in 1 .. n : s4[i] \in TestUsers /\ s4[i] # c
            BY <1>1, <1>2, <2>4, <3>1, ElementOfSeq
        <3>3. \A i \in 1 .. (n + 1) : i \in 1 .. n \/ i = n + 1
            OBVIOUS
        <3>4. s1 <=> (n + 1 = 1)
            BY <1>1, <2>4, <3>1, EmptySeq
        <3>5. s4' # <<>>
            BY <2>5, EmptySeq, LenProperties
        <3>6. \A i \in 1 .. (n + 1) : s2'[s4'[i]].st = "open" /\ s2'[s4'[i]].prior = {i = 1}
            <4>1. ASSUME NEW i \in 1 .. n
                  PROVE  s2'[s4'[i]].st = "open" /\ s2'[s4'[i]].prior = {i = 1}
                BY <2>3, <2>5, <3>1, <3>2
            <4>2. s2'[s4'[n + 1]].st = "open" /\ s2'[s4'[n + 1]].prior = {n + 1 = 1}
                <5>1. {s1} = {n + 1 = 1}
                    BY <1>1, <3>4
                <5> QED
                    BY <2>2, <2>3, <2>5, <5>1
            <4> QED
                BY <3>3, <4>1, <4>2
        <3>7. \A i, j \in 1 .. (n + 1) : s4'[i] = s4'[j] => i = j
            BY <2>5, <3>1, <3>2, <3>3
        <3>8. \A d \in TestUsers : /\ s2'[d].st = "open" => \E i \in 1 .. (n + 1) : s4'[i] = d
                                   /\ s2'[d].st \notin {"failed", "raised"}
                                   /\ s2'[d].st = "closed" => s2'[d].prior = {}
            <4>1. TAKE d \in TestUsers
            <4>2. CASE d = c
                <5>1. n + 1 \in 1 .. (n + 1)
                    OBVIOUS
                <5> QED
                    BY <2>2, <2>3, <2>5, <4>2, <5>1
            <4>3. CASE d # c
                <5>1. \A i \in 1 .. n : i \in 1 .. (n + 1)
                    OBVIOUS
                <5> QED
                    BY <2>3, <2>5, <3>1, <4>3, <5>1
            <4> QED
                BY <4>2, <4>3
        <3> QED
            BY <1>2, <2>5, <3>5, <3>6, <3>7, <3>8 DEF Test!OldestHoldsLock
    <2>7. Test!OldestHoldsLock'
        BY <1>1, <1>3, <2>6, UntidyHolds
    <2> QED
        BY <1>1, <1>2, <1>3, <2>3, <2>5, <2>7, ClientsMove
<1>4. CASE /\ s2' = [s2 EXCEPT ![c] = [st |-> "failed", prior |-> {s1}, ran |-> FALSE]]
           /\ s3' = FALSE /\ s4' = s4
    <2>1. [st |-> "failed", prior |-> {s1}, ran |-> FALSE] \in Test!Client
        BY <1>1 DEF Test!Client
    <2>2. s2' \in [TestUsers -> Test!Client]
        BY <1>1, <1>4, <2>1
    <2> QED
        BY <1>1, <1>2, <1>4, <2>2, UntidyHolds, ClientsMove
<1> QED
    BY <1>3, <1>4 DEF Test!Open

\* Leaving a test client keeps the invariant: closed last in, first out, only the
\* oldest gives the lock back.
LEMMA StepClose == ASSUME ClientsInv, NEW c \in TestUsers, Test!Close(c) PROVE ClientsInv'
<1>1. /\ s1 \in BOOLEAN /\ s3 \in BOOLEAN /\ s4 \in Seq(TestUsers)
      /\ s2 \in [TestUsers -> Test!Client]
    BY DEF ClientsInv, Test!TypeOK
<1>2. s2[c].st = "open" /\ s5' = s5 /\ s4' = SubSeq(s4, 1, Len(s4) - 1)
    BY DEF Test!Close
<1>3. PICK n \in Nat : n = Len(s4) /\ DOMAIN s4 = 1 .. n
    BY <1>1, LenProperties
<1>4. /\ s4' \in Seq(TestUsers)
      /\ n > 0 => Len(s4') = n - 1 /\ DOMAIN s4' = 1 .. (n - 1) /\ \A i \in 1 .. (n - 1) : s4'[i] = s4[i]
    BY <1>1, <1>2, <1>3, SubSeqProperties, LenProperties
<1>5. CASE /\ s1' = Test!Restored(s2[c].prior)
           /\ s2' = [s2 EXCEPT ![c] = [st |-> "closed", prior |-> {}, ran |-> FALSE]]
           /\ s3' = (s3 /\ s4[Len(s4)] = c)
    <2>1. PICK x : x = [st |-> "closed", prior |-> {}, ran |-> FALSE]
        OBVIOUS
    <2>2. x \in Test!Client /\ x.st = "closed" /\ x.prior = {}
        BY <2>1 DEF Test!Client
    <2>3. /\ s2' \in [TestUsers -> Test!Client] /\ s2'[c] = x
          /\ \A d \in TestUsers : d # c => s2'[d] = s2[d]
        BY <1>1, <1>5, <2>1, <2>2
    <2>4. s1' \in BOOLEAN
        <3>1. s2[c].prior \in SUBSET BOOLEAN
            BY <1>1 DEF Test!Client
        <3>2. PICK P \in SUBSET BOOLEAN : P = s2[c].prior
            BY <3>1
        <3>3. P # {} => (CHOOSE b \in P : TRUE) \in P
            OBVIOUS
        <3> QED
            BY <1>1, <1>5, <3>2, <3>3 DEF Test!Restored
    <2>5. ASSUME s3, s4[n] = c PROVE Test!OldestHoldsLock'
        <3>1. /\ s1 <=> s4 = <<>>
              /\ \A i \in 1 .. n : s2[s4[i]].st = "open" /\ s2[s4[i]].prior = {i = 1}
              /\ \A i, j \in 1 .. n : s4[i] = s4[j] => i = j
              /\ \A d \in TestUsers : /\ s2[d].st = "open" => \E i \in 1 .. n : s4[i] = d
                                      /\ s2[d].st \notin {"failed", "raised"}
                                      /\ s2[d].st = "closed" => s2[d].prior = {}
            <4>1. Test!OldestHoldsLock
                BY <2>5 DEF ClientsInv
            <4>2. s1 <=> s4 = <<>>
                BY <2>5, <4>1 DEF Test!OldestHoldsLock
            <4>3. \A i \in 1 .. n : s2[s4[i]].st = "open" /\ s2[s4[i]].prior = {i = 1}
                BY <1>3, <2>5, <4>1 DEF Test!OldestHoldsLock
            <4>4. \A i, j \in 1 .. n : s4[i] = s4[j] => i = j
                BY <1>3, <2>5, <4>1 DEF Test!OldestHoldsLock
            <4>5. \A d \in TestUsers : /\ s2[d].st = "open" => \E i \in 1 .. n : s4[i] = d
                                       /\ s2[d].st \notin {"failed", "raised"}
                                       /\ s2[d].st = "closed" => s2[d].prior = {}
                BY <1>3, <2>5, <4>1 DEF Test!OldestHoldsLock
            <4> QED
                BY <4>2, <4>3, <4>4, <4>5
        <3>2. n > 0 /\ n \in 1 .. n
            BY <1>2, <3>1
        <3>3. /\ DOMAIN s4' = 1 .. (n - 1) /\ Len(s4') = n - 1
              /\ \A i \in 1 .. (n - 1) : s4'[i] = s4[i] /\ i \in 1 .. n /\ i # n
            BY <1>4, <3>2
        <3>4. s1' = (n = 1)
            <4>1. s2[c].prior = {n = 1}
                BY <2>5, <3>1, <3>2
            <4>2. PICK b \in BOOLEAN : b = (n = 1)
                OBVIOUS
            <4>3. Test!Restored({b}) = b
                BY DEF Test!Restored
            <4> QED
                BY <1>5, <4>1, <4>2, <4>3
        <3>5. s4' = <<>> <=> n = 1
            BY <1>4, <3>2, <3>3, EmptySeq
        <3>6. \A i \in 1 .. (n - 1) : s4[i] \in TestUsers /\ s4[i] # c
            BY <1>1, <1>3, <2>5, <3>1, <3>2, <3>3, ElementOfSeq
        <3>7. \A i \in DOMAIN s4' : s2'[s4'[i]].st = "open" /\ s2'[s4'[i]].prior = {i = 1}
            <4>1. \A i \in 1 .. (n - 1) : s2'[s4[i]] = s2[s4[i]]
                BY <2>3, <3>6
            <4>2. \A i \in 1 .. (n - 1) : s2[s4[i]].st = "open" /\ s2[s4[i]].prior = {i = 1}
                BY <3>1, <3>3
            <4>3. SUFFICES ASSUME NEW i \in 1 .. (n - 1)
                  PROVE s2'[s4'[i]].st = "open" /\ s2'[s4'[i]].prior = {i = 1}
                BY <3>3
            <4>4. s4'[i] = s4[i]
                BY <3>3
            <4>5. s2'[s4[i]] = s2[s4[i]]
                BY <4>1
            <4>6. s2[s4[i]].st = "open" /\ s2[s4[i]].prior = {i = 1}
                BY <4>2
            <4> QED
                BY <4>4, <4>5, <4>6, Zenon
        <3>8. \A i, j \in DOMAIN s4' : s4'[i] = s4'[j] => i = j
            BY <3>1, <3>3
        <3>9. \A d \in TestUsers : /\ s2'[d].st = "open" => \E i \in DOMAIN s4' : s4'[i] = d
                                   /\ s2'[d].st \notin {"failed", "raised"}
                                   /\ s2'[d].st = "closed" => s2'[d].prior = {}
            <4>1. TAKE d \in TestUsers
            <4>2. CASE d = c
                BY <2>2, <2>3, <4>2
            <4>3. CASE d # c
                <5>1. ASSUME s2[d].st = "open" PROVE \E i \in DOMAIN s4' : s4'[i] = d
                    <6>1. PICK i \in 1 .. n : s4[i] = d
                        BY <3>1, <5>1
                    <6>2. i # n
                        BY <2>5, <4>3, <6>1
                    <6>3. i \in 1 .. (n - 1)
                        BY <6>2
                    <6> QED
                        BY <3>3, <6>1, <6>3
                <5> QED
                    BY <2>3, <3>1, <4>3, <5>1
            <4> QED
                BY <4>2, <4>3
        <3> QED
            BY <3>4, <3>5, <3>7, <3>8, <3>9 DEF Test!OldestHoldsLock
    <2>6. Test!OldestHoldsLock'
        BY <1>1, <1>3, <1>5, <2>5, UntidyHolds
    <2> QED
        BY <1>1, <1>2, <1>4, <1>5, <2>3, <2>4, <2>6, ClientsMove
<1>6. CASE s2' = [s2 EXCEPT ![c].st = "raised"] /\ s3' = FALSE /\ s1' = s1
    <2>1. s2' \in [TestUsers -> Test!Client]
        BY <1>1, <1>6 DEF Test!Client
    <2> QED
        BY <1>1, <1>2, <1>4, <1>6, <2>1, UntidyHolds, ClientsMove
<1> QED
    BY <1>5, <1>6 DEF Test!Close

\* Releasing a client (its __del__) keeps the invariant: a client that is closed
\* puts nothing back a second time.
LEMMA StepCollect == ASSUME ClientsInv, NEW c \in TestUsers, Test!Collect(c) PROVE ClientsInv'
<1>1. /\ s1 \in BOOLEAN /\ s3 \in BOOLEAN /\ s4 \in Seq(TestUsers)
      /\ s2 \in [TestUsers -> Test!Client]
    BY DEF ClientsInv, Test!TypeOK
<1>2. PICK y \in Test!Client : y = s2[c] /\ y.st \in {"failed", "raised", "closed"}
    BY <1>1 DEF Test!Collect
<1>3. PICK x : x = [y EXCEPT !.st = "gone"]
    OBVIOUS
<1>4. x \in Test!Client /\ x.st = "gone"
    BY <1>3 DEF Test!Client
<1>5. s2' = [s2 EXCEPT ![c] = x] /\ UNCHANGED <<s3, s4, s5>>
    BY <1>1, <1>2, <1>3 DEF Test!Collect
<1>6. /\ s2' \in [TestUsers -> Test!Client] /\ s2'[c] = x
      /\ \A d \in TestUsers : d # c => s2'[d] = s2[d]
    BY <1>1, <1>4, <1>5
<1>7. s1' \in {s1, Test!Restored(y.prior)}
    BY <1>2 DEF Test!Collect
<1>8. s1' \in BOOLEAN
    <2>1. PICK P \in SUBSET BOOLEAN : P = y.prior
        BY DEF Test!Client
    <2>2. P # {} => (CHOOSE b \in P : TRUE) \in P
        OBVIOUS
    <2> QED
        BY <1>1, <1>7, <2>1, <2>2 DEF Test!Restored
<1>9. ASSUME s3 PROVE Test!OldestHoldsLock'
    <2>1. y.st = "closed" /\ y.prior = {}
        BY <1>2, <1>9 DEF ClientsInv, Test!OldestHoldsLock
    <2>2. s1' = s1
        BY <1>7, <2>1 DEF Test!Restored
    <2>3. \A i \in DOMAIN s4 : s4[i] \in TestUsers /\ s4[i] # c
        BY <1>1, <1>2, <1>9, <2>1, ElementOfSeq, LenProperties DEF ClientsInv, Test!OldestHoldsLock
    <2>4. \A i \in DOMAIN s4 : s2'[s4[i]] = s2[s4[i]]
        BY <1>6, <2>3
    <2>5. \A d \in TestUsers : s2'[d] = s2[d] \/ s2'[d].st = "gone"
        BY <1>4, <1>6
    <2> QED
        BY <1>5, <1>9, <2>2, <2>4, <2>5 DEF ClientsInv, Test!OldestHoldsLock
<1>10. Test!OldestHoldsLock'
    BY <1>1, <1>5, <1>9, UntidyHolds
<1> QED
    BY <1>1, <1>5, <1>6, <1>8, <1>10, ClientsMove

\* Every step of the test clients and of the exchange keeps the invariant.
LEMMA ClientsStep == ClientsInv /\ Test!Next => ClientsInv'
<1>1. SUFFICES ASSUME ClientsInv, Test!Next PROVE ClientsInv'
    OBVIOUS
<1>2. PICK e \in Exchange : e = s5 /\ ((e.poll = "gone" \/ e.gone) => e.finished)
    BY <1>1 DEF ClientsInv, Test!TypeOK, Test!PollsAreTrue, Exchange
<1>3. ASSUME NEW c \in TestUsers, NEW n \in 0 .. MaxChunks, Test!Request(c, n) PROVE ClientsInv'
    <2>1. n \in Nat
        BY ServicesAssumption DEF Test!ClientsAssumption
    <2>2. PICK x : x = [Test!NoExchange EXCEPT !.at = "handler", !.left = n]
        OBVIOUS
    <2>3. x \in Exchange /\ x.poll = "none" /\ x.gone = FALSE
        BY <2>1, <2>2, NoExchangeIs DEF Exchange
    <2>4. s5' = x /\ UNCHANGED <<s1, s2, s3, s4>>
        BY <1>3, <2>2 DEF Test!Request
    <2> QED
        BY <1>1, <2>3, <2>4, ExchangeMoves
<1>4. CASE Test!Read
    <2>1. PICK x : x = IF e.left > 0 THEN [e EXCEPT !.left = e.left - 1] ELSE [e EXCEPT !.done = TRUE]
        OBVIOUS
    <2>2. x \in Exchange /\ x.poll = e.poll /\ x.gone = e.gone /\ x.finished = e.finished
        <3>1. e.left \in Nat
            BY DEF Exchange
        <3>2. CASE e.left > 0
            <4>1. PICK n \in Nat : n = e.left - 1
                BY <3>1, <3>2
            <4>2. x = [e EXCEPT !.left = n]
                BY <2>1, <3>2, <4>1
            <4> QED
                BY <4>2 DEF Exchange
        <3>3. CASE ~(e.left > 0)
            <4>1. x = [e EXCEPT !.done = TRUE]
                BY <2>1, <3>3
            <4> QED
                BY <4>1 DEF Exchange
        <3> QED
            BY <3>2, <3>3
    <2>3. s5' = x /\ UNCHANGED <<s1, s2, s3, s4>>
        BY <1>2, <1>4, <2>1 DEF Test!Read
    <2> QED
        BY <1>1, <1>2, <2>2, <2>3, ExchangeMoves
<1>5. CASE Test!Poll
    <2>1. PICK p : p = IF Test!tells_gone(e.finished, 1) THEN "gone" ELSE "quiet"
        OBVIOUS
    <2>2. p = "gone" => e.finished
        BY <2>1 DEF Test!tells_gone, Test!_PEEK_TURNS
    <2>3. PICK x : x = [e EXCEPT !.poll = p]
        OBVIOUS
    <2>4. x \in Exchange /\ x.poll = p /\ x.gone = e.gone /\ x.finished = e.finished
        BY <2>1, <2>3 DEF Exchange
    <2>5. s5' = x /\ UNCHANGED <<s1, s2, s3, s4>>
        BY <1>2, <1>5, <2>1, <2>3 DEF Test!Poll
    <2> QED
        BY <1>1, <1>2, <2>2, <2>4, <2>5, ExchangeMoves
<1>6. CASE Test!Polled
    <2>1. PICK g \in BOOLEAN : g = (e.poll = "gone")
        OBVIOUS
    <2>2. PICK x : x = [e EXCEPT !.poll = "none", !.gone = g]
        OBVIOUS
    <2>3. x \in Exchange /\ x.poll = "none" /\ x.gone = g /\ x.finished = e.finished
        BY <2>1, <2>2 DEF Exchange
    <2>4. s5' = x /\ UNCHANGED <<s1, s2, s3, s4>>
        BY <1>2, <1>6, <2>1, <2>2 DEF Test!Polled
    <2> QED
        BY <1>1, <1>2, <2>1, <2>3, <2>4, ExchangeMoves
<1>7. CASE Test!Answer
    <2>1. PICK x : x = [e EXCEPT !.finished = TRUE]
        OBVIOUS
    <2>2. x \in Exchange /\ x.finished = TRUE
        BY <2>1 DEF Exchange
    <2>3. s5' = x /\ UNCHANGED <<s1, s2, s3, s4>>
        BY <1>2, <1>7, <2>1 DEF Test!Answer
    <2> QED
        BY <1>1, <2>2, <2>3, ExchangeMoves
<1>8. CASE Test!Return
    <2>1. s5' = Test!NoExchange /\ UNCHANGED <<s1, s2, s3, s4>>
        BY <1>8 DEF Test!Return
    <2> QED
        BY <1>1, <2>1, NoExchangeIs, ExchangeMoves
<1> QED
    BY <1>1, <1>3, <1>4, <1>5, <1>6, <1>7, <1>8, StepOpen, StepClose, StepCollect DEF Test!Next

\* The test clients' invariant holds before the first one is entered.
LEMMA ClientsInit == Test!Init => ClientsInv
<1>1. SUFFICES ASSUME Test!Init PROVE ClientsInv
    OBVIOUS
<1>2. s5 \in Exchange /\ Test!PollsAreTrue
    BY <1>1, NoExchangeIs DEF Test!Init, Test!PollsAreTrue
<1>3. PICK x : x = [st |-> "new", prior |-> {}, ran |-> FALSE]
    OBVIOUS
<1>4. x \in Test!Client /\ x.st = "new"
    BY <1>3 DEF Test!Client
<1>5. s2 \in [TestUsers -> Test!Client] /\ \A c \in TestUsers : s2[c].st = "new"
    BY <1>1, <1>3, <1>4 DEF Test!Init
<1>6. s4 = <<>> /\ s4 \in Seq(TestUsers) /\ DOMAIN s4 = {}
    BY <1>1, EmptySeq DEF Test!Init
<1>7. Test!TypeOK
    BY <1>1, <1>2, <1>5, <1>6 DEF Test!Init, Test!TypeOK, Exchange
<1>8. Test!OldestHoldsLock
    BY <1>1, <1>5, <1>6 DEF Test!Init, Test!OldestHoldsLock
<1> QED
    BY <1>2, <1>7, <1>8 DEF ClientsInv

\* The invariant gives both promises of the harness: the lock comes back, and the
\* receive channel reports a disconnect only after the answer.
LEMMA ClientsLeaveNoTrace == ClientsInv => Test!LockComesBack /\ Test!AliveUntilAnswered
<1>1. SUFFICES ASSUME ClientsInv PROVE Test!LockComesBack /\ Test!AliveUntilAnswered
    OBVIOUS
<1>2. ASSUME s3, \A c \in TestUsers : s2[c].st # "open" PROVE s1
    <2>1. \A i \in DOMAIN s4 : s4[i] \in TestUsers
        BY <1>1, ElementOfSeq, LenProperties DEF ClientsInv, Test!TypeOK
    <2>2. DOMAIN s4 = {}
        <3>1. \A i \in DOMAIN s4 : s2[s4[i]].st = "open"
            BY <1>1, <1>2 DEF ClientsInv, Test!OldestHoldsLock
        <3> QED
            BY <1>2, <2>1, <3>1
    <2>3. s4 = <<>>
        BY <1>1, <2>2, EmptySeq, LenProperties DEF ClientsInv, Test!TypeOK
    <2> QED
        BY <1>1, <1>2, <2>3 DEF ClientsInv, Test!OldestHoldsLock
<1> QED
    BY <1>1, <1>2 DEF ClientsInv, Test!LockComesBack, Test!NoneOpen, Test!AliveUntilAnswered, Test!PollsAreTrue

-----------------------------------------------------------------------------
(* The live server: phase, listening, link, tracked, hooks and waits are s1  *)
(* to s6.                                                                   *)

LiveInv == Live!TypeOK /\ Live!Settled

\* Closing connections opens none.
LEMMA ClosingIs ==
    ASSUME Live!TypeOK, NEW S, s3' = Live!Closing(S)
    PROVE  /\ s3' \in [Links -> {"none", "idle", "busy", "draining", "closed"}]
           /\ \A c \in Links : Live!Live(c)' => Live!Live(c) /\ c \notin S
BY DEF Live!TypeOK, Live!Closing, Live!Live

\* A step on one connection.
LEMMA LinkMoves ==
    ASSUME LiveInv, NEW c \in Links, NEW x \in {"none", "idle", "busy", "draining", "closed"},
           s3' = [s3 EXCEPT ![c] = x], Live!Live(c) \/ x = "closed", UNCHANGED <<s1, s2, s4, s5, s6>>
    PROVE  LiveInv'
<1>1. /\ s3' \in [Links -> {"none", "idle", "busy", "draining", "closed"}]
      /\ \A d \in Links : Live!Live(d)' => Live!Live(d)
    BY DEF LiveInv, Live!TypeOK, Live!Live
<1>2. Live!TypeOK'
    BY <1>1 DEF LiveInv, Live!TypeOK
<1>3. Live!Settled'
    BY <1>1 DEF LiveInv, Live!Settled
<1> QED
    BY <1>2, <1>3 DEF LiveInv

\* Every step of the live server's thread, of its loop and of the caller keeps the
\* invariant.
LEMMA LiveStep == LiveInv /\ Live!Next => LiveInv'
<1>1. SUFFICES ASSUME LiveInv, Live!Next PROVE LiveInv'
    OBVIOUS
<1> USE DEF LiveInv
<1>2. CASE Live!Bind
    <2>1. Live!TypeOK'
        BY <1>1, <1>2 DEF Live!Bind, Live!TypeOK
    <2>2. Live!Settled'
        BY <1>1, <1>2 DEF Live!Bind, Live!Settled, Live!Live
    <2> QED
        BY <2>1, <2>2
<1>3. CASE Live!Startup
    <2>1. Live!TypeOK'
        BY <1>1, <1>3 DEF Live!Startup, Live!TypeOK
    <2>2. Live!Settled'
        BY <1>1, <1>3 DEF Live!Startup, Live!Settled, Live!Live
    <2> QED
        BY <2>1, <2>2
<1>4. CASE Live!StartupFailed \/ Live!StartupCancelled
    <2>1. /\ s1 = "failing" /\ s1' \in {"refused", "abandoned"}
          /\ s1' = "refused" => (s6 => Live!_held = {})
          /\ UNCHANGED <<s2, s3, s4, s5, s6>>
        BY <1>4 DEF Live!StartupFailed, Live!StartupCancelled
    <2>2. Live!TypeOK'
        BY <1>1, <2>1 DEF Live!TypeOK
    <2>3. s1' = "refused" /\ s6 => \A c \in Links : ~Live!Live(c)
        BY <1>1, <2>1 DEF Live!Settled, Live!_held
    <2>4. Live!Settled'
        BY <1>1, <2>1, <2>3 DEF Live!Settled, Live!Live
    <2> QED
        BY <2>2, <2>4
<1>5. CASE Live!Exit
    <2>1. Live!TypeOK'
        BY <1>1, <1>5 DEF Live!Exit, Live!TypeOK
    <2>2. Live!Settled'
        BY <1>1, <1>5 DEF Live!Exit, Live!Settled, Live!Live
    <2> QED
        BY <2>1, <2>2
<1>6. CASE Live!CloseClients
    <2>1. PICK S : s3' = Live!Closing(S)
        BY <1>6 DEF Live!CloseClients
    <2>2. /\ s3' \in [Links -> {"none", "idle", "busy", "draining", "closed"}]
          /\ \A c \in Links : Live!Live(c)' => Live!Live(c)
        BY <1>1, <2>1, ClosingIs
    <2>3. s1 = "clients" /\ s1' = "listener" /\ UNCHANGED <<s2, s4, s5, s6>>
        BY <1>6 DEF Live!CloseClients
    <2>4. Live!TypeOK'
        BY <1>1, <2>2, <2>3 DEF Live!TypeOK
    <2>5. Live!Settled'
        BY <1>1, <2>2, <2>3 DEF Live!Settled
    <2> QED
        BY <2>4, <2>5
<1>7. CASE Live!StopListening
    <2>1. /\ s3' \in [Links -> {"none", "idle", "busy", "draining", "closed"}]
          /\ \A c \in Links : Live!Live(c)' => Live!Live(c)
        BY <1>1, <1>7 DEF Live!StopListening, Live!TypeOK, Live!Live
    <2>2. s1 = "listener" /\ s1' = "awaiting" /\ s2' = FALSE /\ UNCHANGED <<s4, s5, s6>>
        BY <1>7 DEF Live!StopListening
    <2>3. Live!TypeOK'
        BY <1>1, <2>1, <2>2 DEF Live!TypeOK
    <2>4. Live!Settled'
        BY <1>1, <2>1, <2>2 DEF Live!Settled
    <2> QED
        BY <2>3, <2>4
<1>8. CASE Live!Awaited
    <2>1. Live!TypeOK'
        BY <1>1, <1>8 DEF Live!Awaited, Live!TypeOK
    <2>2. Live!Settled'
        BY <1>1, <1>8 DEF Live!Awaited, Live!Settled, Live!Live
    <2> QED
        BY <2>1, <2>2
<1>9. CASE Live!Force
    <2>1. s3' = Live!Closing(Live!_held)
        BY <1>9 DEF Live!Force
    <2>2. /\ s3' \in [Links -> {"none", "idle", "busy", "draining", "closed"}]
          /\ \A c \in Links : Live!Live(c)' => Live!Live(c) /\ c \notin Live!_held
        BY <1>1, <2>1, ClosingIs
    <2>3. \A c \in Links : ~Live!Live(c)'
        BY <1>1, <2>2 DEF Live!Settled, Live!_held
    <2>4. s1 = "forcing" /\ s1' = "hooks" /\ s4' = {} /\ UNCHANGED <<s2, s5, s6>>
        BY <1>9 DEF Live!Force
    <2>5. Live!TypeOK'
        BY <1>1, <2>2, <2>4 DEF Live!TypeOK
    <2>6. Live!Settled'
        BY <1>1, <2>3, <2>4 DEF Live!Settled
    <2> QED
        BY <2>5, <2>6
<1>10. CASE Live!Shutdown
    <2>1. Live!TypeOK'
        BY <1>1, <1>10 DEF Live!Shutdown, Live!TypeOK
    <2>2. Live!Settled'
        BY <1>1, <1>10 DEF Live!Shutdown, Live!Settled, Live!Live
    <2> QED
        BY <2>1, <2>2
<1>11. ASSUME NEW c \in Links, Live!Accept(c) PROVE LiveInv'
    <2>1. /\ s2 /\ s3' = [s3 EXCEPT ![c] = "idle"] /\ s4' = s4 \cup {c} /\ UNCHANGED <<s1, s2, s5, s6>>
        BY <1>11 DEF Live!Accept
    <2>2. Live!TypeOK'
        BY <1>1, <2>1 DEF Live!TypeOK
    <2>3. \A d \in Links : Live!Live(d)' => Live!Live(d) \/ d = c
        BY <1>1, <2>1 DEF Live!TypeOK, Live!Live
    <2>4. Live!Settled'
        BY <1>1, <2>1, <2>3 DEF Live!Settled
    <2> QED
        BY <2>2, <2>4
<1>12. ASSUME NEW c \in Links, Live!Serve(c) \/ Live!Served(c) \/ Live!PeerCloses(c) PROVE LiveInv'
    <2>1. CASE Live!Serve(c)
        BY <1>1, <2>1, LinkMoves DEF Live!Serve, Live!Live
    <2>2. CASE Live!Served(c)
        <3>1. PICK x : x = IF s3[c] = "busy" THEN "idle" ELSE "closed"
            OBVIOUS
        <3>2. s3' = [s3 EXCEPT ![c] = x] /\ Live!Live(c) /\ UNCHANGED <<s1, s2, s4, s5, s6>>
            BY <1>1, <2>2, <3>1 DEF Live!Served, Live!Live, Live!TypeOK
        <3> QED
            BY <1>1, <3>1, <3>2, LinkMoves
    <2>3. CASE Live!PeerCloses(c)
        <3>1. s3' = Live!Closing({c}) /\ UNCHANGED <<s1, s2, s4, s5, s6>>
            BY <2>3 DEF Live!PeerCloses
        <3>2. /\ s3' \in [Links -> {"none", "idle", "busy", "draining", "closed"}]
              /\ \A d \in Links : Live!Live(d)' => Live!Live(d)
            BY <1>1, <3>1, ClosingIs
        <3>3. Live!TypeOK'
            BY <1>1, <3>1, <3>2 DEF Live!TypeOK
        <3>4. Live!Settled'
            BY <1>1, <3>1, <3>2 DEF Live!Settled
        <3> QED
            BY <3>3, <3>4
    <2> QED
        BY <1>12, <2>1, <2>2, <2>3
<1> QED
    BY <1>1, <1>2, <1>3, <1>4, <1>5, <1>6, <1>7, <1>8, <1>9, <1>10, <1>11, <1>12 DEF Live!Next, Live!Leaving

\* The live server's invariant holds before start().
LEMMA LiveInit == Live!Init => LiveInv
BY DEF Live!Init, LiveInv, Live!TypeOK, Live!Settled, Live!Live

\* The invariant gives the promise of stop(): nothing is left once it returns.
LEMMA LiveIsComplete == LiveInv => Live!TeardownIsComplete
BY DEF LiveInv, Live!TeardownIsComplete, Live!Settled

-----------------------------------------------------------------------------
(* Signals: subs, dead, walk, due, quiet, wanted and sends are s1 to s7.    *)

Walks == [pc : {"idle", "walking", "awaiting"}, way : Sig!Ways, sender : Sig!Senders,
          at : Nat \ {0}, live : Seq(Receivers), called : Seq(Receivers),
          out : Seq(Sig!Outcomes), raised : BOOLEAN]

SignalTypes ==
    /\ s1 \in Seq(Receivers) /\ s2 \in SUBSET Receivers /\ s3 \in Walks
    /\ s4 \in SUBSET Receivers /\ s5 \in BOOLEAN /\ s6 \in SUBSET Receivers /\ s7 \in Nat

\* What the calls of a walk came to.
OutcomesInv ==
    /\ Len(s3.called) = Len(s3.out)
    /\ s3.pc # "idle" => ~s3.raised
    /\ s3.raised => s3.way \notin Sig!Robust
    /\ s3.pc = "idle" /\ ~s3.raised => Sig!Pending(s3.out) = {}
    /\ s3.way = "asend" =>
         \A i \in DOMAIN s3.out :
           /\ s3.pc = "walking" => s3.out[i] \in {"value", "pending"}
           /\ s3.pc = "awaiting" => s3.out[i] \in {"value", "pending", "error"}
           /\ s3.pc = "idle" /\ ~s3.raised => s3.out[i] = "value"

\* What a walk has come by when it is at place a.
Before(s, a) == {s[i] : i \in 1 .. a - 1}

\* Where a walk under which nobody disconnects is.
QuietWalk ==
    /\ Sig!IsInjective(s1) /\ Sig!IsInjective(s3.called)
    /\ s6 = Sig!Range(s1) \ s2
    /\ s4 \cap s2 = {}
    /\ s3.pc = "walking" =>
         /\ s3.at <= Len(s1) + 1
         /\ Sig!IsInjective(s3.live)
         /\ Sig!Range(s3.live) \subseteq Before(s1, s3.at)
         /\ Sig!Range(s3.called) \subseteq Before(s1, s3.at)
         /\ Before(s1, s3.at) \ s2 \subseteq Sig!Range(s3.live)
         /\ \A r \in s4 : Sig!_matches(r, s3.sender)
         /\ s4 \subseteq Sig!Range(s3.called) \cup (Sig!Range(s1) \ Before(s1, s3.at))
    /\ s3.pc # "walking" /\ ~s3.raised => s4 \subseteq Sig!Range(s3.called)

SignalInv == SignalTypes /\ OutcomesInv /\ (s5 => QuietWalk)

\* A list with one receiver more.
LEMMA LongerList ==
    ASSUME NEW S, NEW s \in Seq(S), NEW e \in S
    PROVE  /\ Append(s, e) \in Seq(S) /\ Len(Append(s, e)) = Len(s) + 1
           /\ Sig!Range(Append(s, e)) = Sig!Range(s) \cup {e}
           /\ Sig!IsInjective(s) /\ e \notin Sig!Range(s) => Sig!IsInjective(Append(s, e))
           /\ \A a \in 1 .. Len(s) + 1 : Before(Append(s, e), a) = Before(s, a)
<1>1. PICK r : r = Append(s, e)
    OBVIOUS
<1>2. /\ r \in Seq(S) /\ Len(r) = Len(s) + 1 /\ r[Len(s) + 1] = e
      /\ \A j \in 1 .. Len(s) : r[j] = s[j]
    BY <1>1, AppendProperties
<1>3. Len(s) \in Nat /\ DOMAIN s = 1 .. Len(s) /\ DOMAIN r = 1 .. Len(s) + 1
    BY <1>2, LenProperties
<1>4. DOMAIN r = DOMAIN s \cup {Len(s) + 1} /\ Len(s) + 1 \notin DOMAIN s
    BY <1>3
<1>5. Sig!Range(r) = Sig!Range(s) \cup {e}
    BY <1>2, <1>3, <1>4 DEF Sig!Range
<1>6. Sig!IsInjective(s) /\ e \notin Sig!Range(s) => Sig!IsInjective(r)
    <2>1. SUFFICES ASSUME Sig!IsInjective(s), e \notin Sig!Range(s),
                          NEW a \in DOMAIN r, NEW b \in DOMAIN r, r[a] = r[b]
                   PROVE  a = b
        BY DEF Sig!IsInjective
    <2>2. \A j \in DOMAIN s : r[j] = s[j] /\ s[j] # e
        BY <1>2, <1>3, <2>1 DEF Sig!Range
    <2>3. a \in DOMAIN s \/ a = Len(s) + 1
        BY <1>4
    <2>4. b \in DOMAIN s \/ b = Len(s) + 1
        BY <1>4
    <2>5. CASE a \in DOMAIN s /\ b \in DOMAIN s
        BY <2>1, <2>2, <2>5 DEF Sig!IsInjective
    <2> QED
        BY <1>2, <2>1, <2>2, <2>3, <2>4, <2>5
<1>7. ASSUME NEW a \in 1 .. Len(s) + 1 PROVE Before(r, a) = Before(s, a)
    <2>1. \A i \in 1 .. a - 1 : i \in 1 .. Len(s)
        BY <1>3
    <2> QED
        BY <1>2, <2>1 DEF Before
<1> QED
    BY <1>1, <1>2, <1>5, <1>6, <1>7

\* A list with one receiver less.
LEMMA ShorterList ==
    ASSUME NEW S, NEW s \in Seq(S), NEW i \in 1 .. Len(s), Sig!IsInjective(s)
    PROVE  /\ Gone(s, i) \in Seq(S) /\ Sig!IsInjective(Gone(s, i))
           /\ Sig!Range(Gone(s, i)) = Sig!Range(s) \ {s[i]}
<1>1. PICK r : r = Gone(s, i)
    OBVIOUS
<1>2. /\ r \in Seq(S) /\ Len(s) \in Nat
      /\ DOMAIN r = 1 .. Len(s) - 1 /\ DOMAIN s = 1 .. Len(s)
      /\ \A j \in 1 .. i - 1 : r[j] = s[j]
      /\ \A j \in i .. Len(s) - 1 : r[j] = s[j + 1]
    BY <1>1, RemovedAt
<1>3. ASSUME NEW j \in DOMAIN r
      PROVE  \E m \in DOMAIN s : r[j] = s[m] /\ m # i /\ m = IF j < i THEN j ELSE j + 1
    <2>1. j \in 1 .. Len(s) - 1
        BY <1>2
    <2>2. CASE j < i
        <3>1. j \in 1 .. i - 1 /\ j \in DOMAIN s /\ j # i
            BY <1>2, <2>1, <2>2
        <3> QED
            BY <1>2, <2>2, <3>1
    <2>3. CASE ~(j < i)
        <3>1. j \in i .. Len(s) - 1 /\ j + 1 \in DOMAIN s /\ j + 1 # i
            BY <1>2, <2>1, <2>3
        <3> QED
            BY <1>2, <2>3, <3>1
    <2> QED
        BY <2>2, <2>3
<1>4. ASSUME NEW m \in DOMAIN s, m # i PROVE \E j \in DOMAIN r : r[j] = s[m]
    <2>1. CASE m < i
        <3>1. m \in 1 .. i - 1 /\ m \in DOMAIN r
            BY <1>2, <2>1
        <3> QED
            BY <1>2, <3>1
    <2>2. CASE ~(m < i)
        <3>1. m - 1 \in i .. Len(s) - 1 /\ m - 1 \in DOMAIN r /\ m - 1 + 1 = m
            BY <1>2, <1>4, <2>2
        <3>2. r[m - 1] = s[m - 1 + 1]
            BY <1>2, <3>1
        <3> QED
            BY <3>1, <3>2
    <2> QED
        BY <2>1, <2>2
<1>5. i \in DOMAIN s
    BY <1>2
<1>6. Sig!Range(r) = Sig!Range(s) \ {s[i]}
    <2>1. ASSUME NEW j \in DOMAIN r PROVE r[j] \in Sig!Range(s) \ {s[i]}
        BY <1>3, <1>5 DEF Sig!Range, Sig!IsInjective
    <2>2. ASSUME NEW m \in DOMAIN s, s[m] # s[i] PROVE s[m] \in Sig!Range(r)
        BY <1>4, <2>2 DEF Sig!Range
    <2> QED
        BY <2>1, <2>2 DEF Sig!Range
<1>7. Sig!IsInjective(r)
    <2>1. SUFFICES ASSUME NEW a \in DOMAIN r, NEW b \in DOMAIN r, r[a] = r[b]
                   PROVE  a = b
        BY DEF Sig!IsInjective
    <2>2. PICK m \in DOMAIN s : r[a] = s[m] /\ m = IF a < i THEN a ELSE a + 1
        BY <1>3
    <2>3. PICK n \in DOMAIN s : r[b] = s[n] /\ n = IF b < i THEN b ELSE b + 1
        BY <1>3
    <2>4. m = n
        BY <2>1, <2>2, <2>3 DEF Sig!IsInjective
    <2>5. a \in Nat /\ b \in Nat /\ i \in Nat
        BY <1>2
    <2> QED
        BY <2>2, <2>3, <2>4, <2>5
<1> QED
    BY <1>1, <1>2, <1>6, <1>7

\* What lies behind a walk: nothing at first, then one more at each turn, and
\* the whole list at last.
LEMMA BehindIs ==
    ASSUME NEW S, NEW s \in Seq(S)
    PROVE  /\ Before(s, 1) = {} /\ Before(s, Len(s) + 1) = Sig!Range(s)
           /\ \A a \in 1 .. Len(s) :
                /\ s[a] \in S /\ s[a] \in Sig!Range(s)
                /\ Before(s, a + 1) = Before(s, a) \cup {s[a]}
                /\ Sig!IsInjective(s) => s[a] \notin Before(s, a)
<1>1. Len(s) \in Nat /\ DOMAIN s = 1 .. Len(s)
    BY LenProperties
<1>2. Before(s, 1) = {} /\ Before(s, Len(s) + 1) = Sig!Range(s)
    <2>1. 1 .. 1 - 1 = {} /\ 1 .. Len(s) + 1 - 1 = DOMAIN s
        BY <1>1
    <2> QED
        BY <2>1 DEF Before, Sig!Range
<1>3. ASSUME NEW a \in 1 .. Len(s)
      PROVE  /\ s[a] \in S /\ s[a] \in Sig!Range(s)
             /\ Before(s, a + 1) = Before(s, a) \cup {s[a]}
             /\ Sig!IsInjective(s) => s[a] \notin Before(s, a)
    <2>1. s[a] \in S /\ s[a] \in Sig!Range(s)
        BY <1>1, ElementOfSeq DEF Sig!Range
    <2>2. 1 .. a + 1 - 1 = (1 .. a - 1) \cup {a}
        BY <1>1
    <2>3. Before(s, a + 1) = Before(s, a) \cup {s[a]}
        BY <2>2 DEF Before
    <2>4. \A i \in 1 .. a - 1 : i \in DOMAIN s /\ a \in DOMAIN s /\ i # a
        BY <1>1
    <2>5. Sig!IsInjective(s) => s[a] \notin Before(s, a)
        BY <2>4 DEF Before, Sig!IsInjective
    <2> QED
        BY <2>1, <2>3, <2>5
<1> QED
    BY <1>2, <1>3

\* Only the lists of who is connected change.
LEMMA ListsChange ==
    ASSUME OutcomesInv, UNCHANGED <<s3>>
    PROVE  OutcomesInv'
BY DEF OutcomesInv

\* A receiver connects, during a walk or not.
LEMMA ConnectStep == ASSUME SignalInv, NEW r \in Receivers, Sig!connect(r) PROVE SignalInv'
<1>1. /\ s1' = Append(s1, r) /\ s6' = s6 \cup {r} /\ UNCHANGED <<s2, s3, s4, s5, s7>>
      /\ r \notin s2 /\ r \notin Sig!Range(s1)
    BY DEF Sig!connect
<1>2. s1 \in Seq(Receivers) /\ s3 \in Walks
    BY DEF SignalInv, SignalTypes
<1>3. PICK l \in Seq(Receivers) :
          /\ l = Append(s1, r) /\ Len(l) = Len(s1) + 1
          /\ Sig!Range(l) = Sig!Range(s1) \cup {r}
          /\ Sig!IsInjective(s1) => Sig!IsInjective(l)
          /\ \A a \in 1 .. Len(s1) + 1 : Before(l, a) = Before(s1, a)
    <2>1. /\ Append(s1, r) \in Seq(Receivers) /\ Len(Append(s1, r)) = Len(s1) + 1
          /\ Sig!Range(Append(s1, r)) = Sig!Range(s1) \cup {r}
          /\ Sig!IsInjective(s1) => Sig!IsInjective(Append(s1, r))
          /\ \A a \in 1 .. Len(s1) + 1 : Before(Append(s1, r), a) = Before(s1, a)
        BY <1>1, <1>2, LongerList
    <2> QED
        BY <2>1, Zenon
<1>4. s1' = l
    BY <1>1, <1>3
<1>5. SignalTypes'
    BY <1>1, <1>4 DEF SignalInv, SignalTypes
<1>6. OutcomesInv'
    BY <1>1, ListsChange DEF SignalInv
<1>7. ASSUME QuietWalk PROVE QuietWalk'
    <2>1. Sig!IsInjective(s1)' /\ Sig!IsInjective(s3.called)'
        <3>1. Sig!IsInjective(l)
            BY <1>3, <1>7 DEF QuietWalk
        <3>2. Sig!IsInjective(s1)'
            BY <1>4, <3>1 DEF Sig!IsInjective
        <3> QED
            BY <1>1, <1>7, <3>2 DEF QuietWalk, Sig!IsInjective
    <2>2. Sig!Range(s1)' = Sig!Range(s1) \cup {r}
        BY <1>3, <1>4 DEF Sig!Range
    <2>3. s6' = Sig!Range(s1)' \ s2' /\ s4' \cap s2' = {}
        BY <1>1, <1>7, <2>2 DEF QuietWalk
    <2>4. ASSUME s3.pc = "walking"
          PROVE  Before(s1, s3.at)' = Before(s1, s3.at) /\ s3.at <= Len(s1') + 1
        <3>1. s3.at \in 1 .. Len(s1) + 1 /\ Len(s1) \in Nat
            BY <1>2, <1>7, <2>4 DEF QuietWalk, Walks
        <3>2. Before(l, s3.at) = Before(s1, s3.at)
            BY <1>3, <3>1
        <3>3. Before(s1, s3.at)' = Before(s1, s3.at)
            BY <1>1, <1>4, <3>2 DEF Before
        <3>4. s3.at <= Len(l) + 1
            BY <1>3, <3>1
        <3> QED
            BY <1>4, <3>3, <3>4
    <2>5. /\ Sig!Range(s3.live)' = Sig!Range(s3.live) /\ Sig!Range(s3.called)' = Sig!Range(s3.called)
          /\ Sig!IsInjective(s3.live)' = Sig!IsInjective(s3.live)
          /\ \A x : Sig!_matches(x, s3.sender)' = Sig!_matches(x, s3.sender)
        BY <1>1 DEF Sig!Range, Sig!IsInjective, Sig!_matches
    <2> QED
        BY <1>1, <1>7, <2>1, <2>2, <2>3, <2>4, <2>5 DEF QuietWalk
<1> QED
    BY <1>1, <1>5, <1>6, <1>7 DEF SignalInv

\* A receiver disconnects; outside a walk nobody else is concerned.
LEMMA DisconnectStep == ASSUME SignalInv, NEW r \in Receivers, Sig!disconnect(r) PROVE SignalInv'
<1>1. /\ UNCHANGED <<s2, s3, s7>> /\ s6' = s6 \ {r} /\ s4' = s4 \ {r}
      /\ s5' = (s5 /\ s3.pc # "walking") /\ r \notin s2
    BY DEF Sig!disconnect
<1>2. s1 \in Seq(Receivers)
    BY DEF SignalInv, SignalTypes
<1>3. PICK i \in DOMAIN s1 : s1[i] = r /\ s1' = Sig!RemoveAt(s1, i)
    BY DEF Sig!disconnect
<1>4. s1' = Gone(s1, i) /\ i \in 1 .. Len(s1)
    BY <1>2, <1>3 DEF Sig!RemoveAt, Gone
<1>5. s1' \in Seq(Receivers)
    BY <1>2, <1>4, RemovedAt
<1>6. s5' \in BOOLEAN /\ (s5' => s5 /\ s3.pc # "walking")
    BY <1>1
<1>7. SignalTypes'
    BY <1>1, <1>5, <1>6 DEF SignalInv, SignalTypes
<1>8. OutcomesInv'
    BY <1>1, ListsChange DEF SignalInv
<1>9. ASSUME QuietWalk, s3.pc # "walking" PROVE QuietWalk'
    <2>1. Sig!IsInjective(Gone(s1, i)) /\ Sig!Range(Gone(s1, i)) = Sig!Range(s1) \ {r}
        BY <1>2, <1>3, <1>4, <1>9, ShorterList DEF QuietWalk
    <2>2. Sig!IsInjective(s1)' /\ Sig!Range(s1)' = Sig!Range(s1) \ {r}
        BY <1>4, <2>1 DEF Sig!IsInjective, Sig!Range
    <2>3. Sig!IsInjective(s3.called)' = Sig!IsInjective(s3.called)
          /\ Sig!Range(s3.called)' = Sig!Range(s3.called)
        BY <1>1 DEF Sig!IsInjective, Sig!Range
    <2> QED
        BY <1>1, <1>9, <2>2, <2>3 DEF QuietWalk
<1> QED
    BY <1>6, <1>7, <1>8, <1>9 DEF SignalInv

\* A receiver is collected; its reference stays in the list.
LEMMA CollectStep == ASSUME SignalInv, NEW r \in Receivers, Sig!collect(r) PROVE SignalInv'
<1>1. /\ UNCHANGED <<s1, s3, s5, s7>> /\ s2' = s2 \cup {r} /\ s6' = s6 \ {r} /\ s4' = s4 \ {r}
    BY DEF Sig!collect
<1>2. SignalTypes'
    BY <1>1 DEF SignalInv, SignalTypes
<1>3. OutcomesInv'
    BY <1>1, ListsChange DEF SignalInv
<1>4. ASSUME QuietWalk PROVE QuietWalk'
    <2>1. /\ Sig!IsInjective(s1)' = Sig!IsInjective(s1) /\ Sig!Range(s1)' = Sig!Range(s1)
          /\ Before(s1, s3.at)' = Before(s1, s3.at)
          /\ Sig!Range(s3.live)' = Sig!Range(s3.live) /\ Sig!Range(s3.called)' = Sig!Range(s3.called)
          /\ Sig!IsInjective(s3.live)' = Sig!IsInjective(s3.live)
          /\ Sig!IsInjective(s3.called)' = Sig!IsInjective(s3.called)
          /\ \A x : Sig!_matches(x, s3.sender)' = Sig!_matches(x, s3.sender)
        BY <1>1 DEF Sig!Range, Sig!IsInjective, Sig!_matches, Before
    <2> QED
        BY <1>1, <1>4, <2>1 DEF QuietWalk
<1> QED
    BY <1>1, <1>2, <1>3, <1>4 DEF SignalInv

\* One of the four sends begins.
LEMMA SendStep ==
    ASSUME SignalInv, NEW way \in Sig!Ways, NEW sender \in Sig!Senders, Sig!send(way, sender)
    PROVE  SignalInv'
<1>1. PICK y \in Walks : /\ s3' = y /\ y.pc = "walking" /\ y.way = way /\ y.sender = sender /\ y.at = 1
                         /\ y.live = <<>> /\ y.called = <<>> /\ y.out = <<>> /\ y.raised = FALSE
    <2>1. PICK y : y = [Sig!Idle EXCEPT !.pc = "walking", !.way = way, !.sender = sender]
        OBVIOUS
    <2>2. /\ y.pc = "walking" /\ y.way = way /\ y.sender = sender /\ y.at = 1
          /\ y.live = <<>> /\ y.called = <<>> /\ y.out = <<>> /\ y.raised = FALSE
        BY <2>1 DEF Sig!Idle
    <2>3. <<>> \in Seq(Receivers) /\ <<>> \in Seq(Sig!Outcomes) /\ 1 \in Nat \ {0}
        OBVIOUS
    <2>4. y \in Walks
        BY <2>1, <2>3 DEF Sig!Idle, Walks
    <2> QED
        BY <2>1, <2>2, <2>4 DEF Sig!send
<1>2. /\ UNCHANGED <<s1, s2, s5, s6>> /\ s7' = s7 + 1
      /\ s4' = {r \in s6 : Sig!_matches(r, sender)}
    BY DEF Sig!send
<1>3. SignalTypes'
    BY <1>1, <1>2 DEF SignalInv, SignalTypes
<1>4. DOMAIN <<>> = {} /\ Len(<<>>) = 0
    OBVIOUS
<1>5. OutcomesInv'
    BY <1>1, <1>4 DEF OutcomesInv
<1>6. ASSUME QuietWalk PROVE QuietWalk'
    <2>1. Sig!IsInjective(s1)' /\ Sig!Range(s1)' = Sig!Range(s1)
        BY <1>2, <1>6 DEF QuietWalk, Sig!IsInjective, Sig!Range
    <2>2. Before(s1, s3.at)' = {}
        <3>1. 1 .. 1 - 1 = {}
            OBVIOUS
        <3> QED
            BY <1>1, <3>1 DEF Before
    <2>3. /\ Sig!IsInjective(s3.called)' /\ Sig!IsInjective(s3.live)'
          /\ Sig!Range(s3.called)' = {} /\ Sig!Range(s3.live)' = {}
        BY <1>1, <1>4 DEF Sig!IsInjective, Sig!Range
    <2>4. s3'.at <= Len(s1') + 1
        <3>1. Len(s1) \in Nat
            BY DEF SignalInv, SignalTypes
        <3>2. 1 <= Len(s1) + 1
            BY <3>1
        <3> QED
            BY <1>1, <1>2, <3>2
    <2>5. \A r \in s4' : Sig!_matches(r, s3.sender)'
        BY <1>1, <1>2 DEF Sig!_matches
    <2>6. s6 = Sig!Range(s1) \ s2
        BY <1>6 DEF QuietWalk
    <2> QED
        BY <1>1, <1>2, <2>1, <2>2, <2>3, <2>4, <2>5, <2>6 DEF QuietWalk
<1> QED
    BY <1>2, <1>3, <1>5, <1>6 DEF SignalInv

\* What a turn of the walk leaves: one place further, with the receiver kept
\* or dropped, and called or passed over.
LEMMA TurnIs ==
    ASSUME SignalInv, Sig!turn
    PROVE  \E r \in Receivers, x \in Sig!Outcomes, called \in BOOLEAN :
             /\ s3.pc = "walking" /\ s3.at \in 1 .. Len(s1) /\ r = s1[s3.at]
             /\ called <=> ~(r \in s2 \/ ~Sig!_matches(r, s3.sender))
             /\ s3' \in Walks /\ s3'.pc = "walking" /\ s3'.way = s3.way /\ s3'.sender = s3.sender
             /\ s3'.at = s3.at + 1 /\ s3'.raised = s3.raised
             /\ s3'.live = IF r \in s2 THEN s3.live ELSE Append(s3.live, r)
             /\ s3'.called = IF called THEN Append(s3.called, r) ELSE s3.called
             /\ s3'.out = IF called THEN Append(s3.out, x) ELSE s3.out
             /\ s3.way = "asend" => x \in {"value", "pending"}
<1>1. PICK y \in Walks : y = s3
    BY DEF SignalInv, SignalTypes
<1>2. s1 \in Seq(Receivers) /\ y.at \in 1 .. Len(s1)
    <2>1. y.at \in Nat \ {0} /\ y.at <= Len(s1) /\ s1 \in Seq(Receivers)
        BY <1>1 DEF Sig!turn, SignalInv, SignalTypes, Walks
    <2>2. Len(s1) \in Nat
        BY <2>1
    <2> QED
        BY <2>1, <2>2
<1>3. PICK r \in Receivers : r = s1[y.at]
    BY <1>2, ElementOfSeq
<1>4. PICK called \in BOOLEAN : called <=> ~(r \in s2 \/ ~Sig!_matches(r, y.sender))
    OBVIOUS
<1>5. PICK l \in Seq(Receivers) : l = IF r \in s2 THEN y.live ELSE Append(y.live, r)
    <2>1. y.live \in Seq(Receivers)
        BY DEF Walks
    <2> QED
        BY <2>1, AppendProperties
<1>6. PICK c \in Seq(Receivers) : c = IF called THEN Append(y.called, r) ELSE y.called
    <2>1. y.called \in Seq(Receivers)
        BY DEF Walks
    <2> QED
        BY <2>1, AppendProperties
<1>7. PICK x \in Sig!Outcomes :
        /\ y.way = "asend" => x \in {"value", "pending"}
        /\ s3' = [y EXCEPT !.at = @ + 1, !.live = l, !.called = c,
                           !.out = IF called THEN Append(@, x) ELSE @]
    <2>1. CASE ~called
        <3>1. Sig!Step(r, "")
            BY <1>1, <1>3, <1>4, <2>1 DEF Sig!turn
        <3>2. s3' = [y EXCEPT !.at = @ + 1, !.live = l, !.called = c,
                              !.out = IF called THEN Append(@, "value") ELSE @]
            BY <1>1, <1>5, <1>6, <2>1, <3>1 DEF Sig!Step
        <3>3. "value" \in Sig!Outcomes
            BY DEF Sig!Outcomes
        <3> QED
            BY <3>2, <3>3
    <2>2. CASE called
        <3>1. \/ Sig!Step(r, Sig!returned(r))
              \/ y.way \in Sig!Robust /\ Sig!Step(r, "error")
            BY <1>1, <1>3, <1>4, <2>2 DEF Sig!turn
        <3>2. PICK x \in Sig!Outcomes \ {""} : Sig!Step(r, x) /\ (y.way = "asend" => x \in {"value", "pending"})
            <4>1. CASE Sig!Step(r, Sig!returned(r))
                <5>1. Sig!returned(r) \in {"value", "handed back", "refused", "pending"}
                    BY DEF Sig!returned
                <5>2. y.way = "asend" => Sig!returned(r) \in {"value", "pending"}
                    BY <1>1 DEF Sig!returned
                <5> QED
                    BY <4>1, <5>1, <5>2 DEF Sig!Outcomes
            <4>2. CASE y.way \in Sig!Robust /\ Sig!Step(r, "error")
                BY <4>2 DEF Sig!Robust, Sig!Outcomes
            <4> QED
                BY <3>1, <4>1, <4>2
        <3>3. s3' = [y EXCEPT !.at = @ + 1, !.live = l, !.called = c,
                              !.out = IF called THEN Append(@, x) ELSE @]
            BY <1>1, <1>5, <1>6, <2>2, <3>2 DEF Sig!Step
        <3> QED
            BY <3>2, <3>3
    <2> QED
        BY <2>1, <2>2
<1>8. PICK o \in Seq(Sig!Outcomes) : o = IF called THEN Append(y.out, x) ELSE y.out
    <2>1. y.out \in Seq(Sig!Outcomes)
        BY DEF Walks
    <2> QED
        BY <2>1, AppendProperties
<1>13. PICK n \in Nat \ {0} : n = y.at + 1
    <2>1. y.at \in Nat
        BY DEF Walks
    <2> QED
        BY <2>1
<1>9. PICK z : z = [y EXCEPT !.at = n, !.live = l, !.called = c, !.out = o]
    OBVIOUS
<1>10. s3' = z
    BY <1>7, <1>8, <1>9, <1>13
<1>11. /\ z \in Walks /\ z.pc = y.pc /\ z.way = y.way /\ z.sender = y.sender /\ z.at = n
       /\ z.raised = y.raised /\ z.live = l /\ z.called = c /\ z.out = o
    BY <1>9 DEF Walks
<1>12. y.pc = "walking"
    BY <1>1 DEF Sig!turn
<1> QED
    BY <1>1, <1>2, <1>3, <1>4, <1>5, <1>6, <1>7, <1>8, <1>10, <1>11, <1>12, <1>13

\* A turn calls whom it comes by, and nobody twice.
LEMMA TurnStep == ASSUME SignalInv, Sig!turn PROVE SignalInv'
<1>1. UNCHANGED <<s1, s2, s4, s5, s6, s7>>
    BY DEF Sig!turn
<1>2. PICK r \in Receivers, x \in Sig!Outcomes, called \in BOOLEAN :
             /\ s3.pc = "walking" /\ s3.at \in 1 .. Len(s1) /\ r = s1[s3.at]
             /\ called <=> ~(r \in s2 \/ ~Sig!_matches(r, s3.sender))
             /\ s3' \in Walks /\ s3'.pc = "walking" /\ s3'.way = s3.way /\ s3'.sender = s3.sender
             /\ s3'.at = s3.at + 1 /\ s3'.raised = s3.raised
             /\ s3'.live = IF r \in s2 THEN s3.live ELSE Append(s3.live, r)
             /\ s3'.called = IF called THEN Append(s3.called, r) ELSE s3.called
             /\ s3'.out = IF called THEN Append(s3.out, x) ELSE s3.out
             /\ s3.way = "asend" => x \in {"value", "pending"}
    BY TurnIs
<1>3. SignalTypes'
    BY <1>1, <1>2 DEF SignalInv, SignalTypes
<1>4. s1 \in Seq(Receivers) /\ s3.live \in Seq(Receivers) /\ s3.called \in Seq(Receivers)
      /\ s3.out \in Seq(Sig!Outcomes)
    BY DEF SignalInv, SignalTypes, Walks
<1>5. OutcomesInv'
    <2>1. CASE ~called
        <3>1. s3'.called = s3.called /\ s3'.out = s3.out
            BY <1>2, <2>1
        <3> QED
            BY <1>2, <3>1 DEF SignalInv, OutcomesInv
    <2>2. CASE called
        <3>1. s3'.called = Append(s3.called, r) /\ s3'.out = Append(s3.out, x)
            BY <1>2, <2>2
        <3>2. Len(s3'.called) = Len(s3.called) + 1
            BY <1>2, <1>4, <3>1, AppendProperties
        <3>3. /\ Len(s3'.out) = Len(s3.out) + 1 /\ s3'.out[Len(s3.out) + 1] = x
              /\ \A j \in 1 .. Len(s3.out) : s3'.out[j] = s3.out[j]
            BY <1>4, <3>1, AppendProperties
        <3>4. DOMAIN s3.out = 1 .. Len(s3.out) /\ DOMAIN s3'.out = 1 .. Len(s3'.out)
              /\ Len(s3.out) \in Nat
            BY <1>2, <1>4, LenProperties DEF Walks
        <3>5. \A i \in DOMAIN s3'.out : i \in DOMAIN s3.out \/ i = Len(s3.out) + 1
            BY <3>3, <3>4
        <3>6. \A i \in DOMAIN s3.out : s3'.out[i] = s3.out[i]
            BY <3>3, <3>4
        <3>7. Len(s3'.called) = Len(s3'.out) /\ ~s3.raised
            BY <1>2, <3>2, <3>3 DEF SignalInv, OutcomesInv
        <3>8. s3.way = "asend" => \A i \in DOMAIN s3.out : s3.out[i] \in {"value", "pending"}
            BY <1>2 DEF SignalInv, OutcomesInv
        <3>9. s3.way = "asend" => \A i \in DOMAIN s3'.out : s3'.out[i] \in {"value", "pending"}
            BY <1>2, <3>3, <3>5, <3>6, <3>8
        <3> QED
            BY <1>2, <3>7, <3>9 DEF OutcomesInv
    <2> QED
        BY <2>1, <2>2
<1>6. ASSUME QuietWalk PROVE QuietWalk'
    <2> DEFINE B == Before(s1, s3.at)
               L == Sig!Range(s3.live)
               C == Sig!Range(s3.called)
    <2>1. /\ Sig!IsInjective(s1) /\ Sig!IsInjective(s3.called) /\ Sig!IsInjective(s3.live)
          /\ s6 = Sig!Range(s1) \ s2 /\ s4 \cap s2 = {}
          /\ L \subseteq B /\ C \subseteq B /\ B \ s2 \subseteq L
          /\ \A q \in s4 : Sig!_matches(q, s3.sender)
          /\ s4 \subseteq C \cup (Sig!Range(s1) \ B)
        BY <1>2, <1>6 DEF QuietWalk
    <2>2. /\ Before(s1, s3.at + 1) = B \cup {r} /\ r \notin B /\ r \in Sig!Range(s1)
        BY <1>2, <1>4, <2>1, BehindIs
    <2>3. Before(s1, s3.at)' = B \cup {r} /\ Sig!Range(s1)' = Sig!Range(s1) /\ Sig!IsInjective(s1)'
        BY <1>1, <1>2, <2>1, <2>2 DEF Before, Sig!Range, Sig!IsInjective
    <2>4. /\ Sig!Range(s3.live)' = IF r \in s2 THEN L ELSE L \cup {r}
          /\ Sig!IsInjective(s3.live)'
        <3>1. PICK l : /\ l = s3'.live /\ Sig!IsInjective(l)
                       /\ Sig!Range(l) = IF r \in s2 THEN L ELSE L \cup {r}
            <4>1. CASE r \in s2
                BY <1>2, <2>1, <4>1
            <4>2. CASE r \notin s2
                <5>1. r \notin L
                    BY <2>1, <2>2
                <5>2. /\ Sig!Range(Append(s3.live, r)) = L \cup {r}
                      /\ Sig!IsInjective(Append(s3.live, r))
                    BY <1>2, <1>4, <2>1, <5>1, LongerList
                <5> QED
                    BY <1>2, <4>2, <5>2
            <4> QED
                BY <4>1, <4>2
        <3> QED
            BY <3>1 DEF Sig!Range, Sig!IsInjective
    <2>5. /\ Sig!Range(s3.called)' = IF called THEN C \cup {r} ELSE C
          /\ Sig!IsInjective(s3.called)'
        <3>1. PICK l : /\ l = s3'.called /\ Sig!IsInjective(l)
                       /\ Sig!Range(l) = IF called THEN C \cup {r} ELSE C
            <4>1. CASE ~called
                BY <1>2, <2>1, <4>1
            <4>2. CASE called
                <5>1. r \notin C
                    BY <2>1, <2>2
                <5>2. /\ Sig!Range(Append(s3.called, r)) = C \cup {r}
                      /\ Sig!IsInjective(Append(s3.called, r))
                    BY <1>2, <1>4, <2>1, <5>1, LongerList
                <5> QED
                    BY <1>2, <4>2, <5>2
            <4> QED
                BY <4>1, <4>2
        <3> QED
            BY <3>1 DEF Sig!Range, Sig!IsInjective
    <2>6. s3'.at <= Len(s1') + 1
        <3>1. Len(s1) \in Nat
            BY <1>4
        <3>2. PICK n \in 1 .. Len(s1) : n = s3.at
            BY <1>2
        <3>3. n + 1 <= Len(s1) + 1
            BY <3>1
        <3> QED
            BY <1>1, <1>2, <3>2, <3>3
    <2>7. \A q \in s4' : Sig!_matches(q, s3.sender)'
        BY <1>1, <1>2, <2>1 DEF Sig!_matches
    <2>8. ~called => r \notin s4
        BY <1>2, <2>1
    <2> HIDE DEF B, L, C
    <2>9. s4' \subseteq Sig!Range(s3.called)' \cup (Sig!Range(s1)' \ Before(s1, s3.at)')
        BY <1>1, <2>1, <2>3, <2>5, <2>8
    <2>10. /\ Sig!Range(s3.live)' \subseteq Before(s1, s3.at)'
           /\ Sig!Range(s3.called)' \subseteq Before(s1, s3.at)'
           /\ Before(s1, s3.at)' \ s2' \subseteq Sig!Range(s3.live)'
        BY <1>1, <2>1, <2>3, <2>4, <2>5
    <2>11. s6' = Sig!Range(s1)' \ s2' /\ s4' \cap s2' = {} /\ s3'.pc = "walking"
        BY <1>1, <1>2, <2>1, <2>3
    <2> QED
        BY <2>3, <2>4, <2>5, <2>6, <2>7, <2>9, <2>10, <2>11 DEF QuietWalk
<1> QED
    BY <1>1, <1>3, <1>5, <1>6 DEF SignalInv

\* A receiver raises: the walk is given up.
LEMMA RaisesStep == ASSUME SignalInv, Sig!raises PROVE SignalInv'
<1>1. UNCHANGED <<s1, s2, s4, s5, s6, s7>> /\ s3.way \notin Sig!Robust
    BY DEF Sig!raises
<1>2. PICK y \in Walks : y = s3
    BY DEF SignalInv, SignalTypes
<1>3. PICK z : z = [y EXCEPT !.pc = "idle", !.raised = TRUE]
    OBVIOUS
<1>4. /\ z \in Walks /\ z.pc = "idle" /\ z.raised /\ z.way = y.way /\ z.called = y.called /\ z.out = y.out
    BY <1>3 DEF Walks
<1>5. s3' = z
    BY <1>2, <1>3 DEF Sig!raises
<1>6. SignalTypes'
    BY <1>1, <1>4, <1>5 DEF SignalInv, SignalTypes
<1>7. OutcomesInv'
    BY <1>1, <1>2, <1>4, <1>5 DEF SignalInv, OutcomesInv
<1>8. ASSUME QuietWalk PROVE QuietWalk'
    <2>1. Sig!IsInjective(s1)' /\ Sig!IsInjective(s3.called)' /\ Sig!Range(s1)' = Sig!Range(s1)
        BY <1>1, <1>2, <1>4, <1>5, <1>8 DEF QuietWalk, Sig!IsInjective, Sig!Range
    <2> QED
        BY <1>1, <1>4, <1>5, <1>8, <2>1 DEF QuietWalk
<1> QED
    BY <1>1, <1>6, <1>7, <1>8 DEF SignalInv

\* The walk ends: what is left of the list is who was there and is alive.
LEMMA FinishStep == ASSUME SignalInv, Sig!finish PROVE SignalInv'
<1>1. UNCHANGED <<s2, s4, s5, s6, s7>> /\ s1' = Sig!pruned /\ s3.pc = "walking"
    BY DEF Sig!finish
<1>2. PICK y \in Walks : y = s3
    BY DEF SignalInv, SignalTypes
<1>3. PICK p : p = IF Sig!Pending(y.out) = {} THEN "idle" ELSE "awaiting"
    OBVIOUS
<1>4. PICK z : z = [y EXCEPT !.pc = p]
    OBVIOUS
<1>5. /\ z \in Walks /\ z.pc = p /\ z.way = y.way /\ z.called = y.called /\ z.out = y.out
      /\ z.raised = y.raised /\ p \in {"idle", "awaiting"}
    BY <1>3, <1>4 DEF Walks
<1>6. s3' = z
    BY <1>2, <1>3, <1>4 DEF Sig!finish
<1>7. s1 \in Seq(Receivers) /\ y.live \in Seq(Receivers) /\ y.at > Len(s1) /\ y.at \in Nat
    BY <1>2 DEF Sig!finish, SignalInv, SignalTypes, Walks
<1>8. s1' \in {s1, y.live}
    BY <1>1, <1>2 DEF Sig!pruned
<1>9. SignalTypes'
    BY <1>1, <1>5, <1>6, <1>7, <1>8 DEF SignalInv, SignalTypes
<1>10. OutcomesInv'
    <2>1. ~y.raised /\ Len(y.called) = Len(y.out)
          /\ (y.way = "asend" => \A i \in DOMAIN y.out : y.out[i] \in {"value", "pending"})
        BY <1>1, <1>2 DEF SignalInv, OutcomesInv
    <2>2. p = "idle" => Sig!Pending(y.out) = {} /\ \A i \in DOMAIN y.out : y.out[i] # "pending"
        BY <1>3 DEF Sig!Pending
    <2>3. p = "idle" => Sig!Pending(s3'.out) = {}
        BY <1>5, <1>6, <2>2
    <2>4. y.way = "asend" => \A i \in DOMAIN y.out : p = "idle" => y.out[i] = "value"
        BY <2>1, <2>2
    <2>5. (Sig!Pending(s3.out) = {})' <=> Sig!Pending(s3'.out) = {}
        BY DEF Sig!Pending
    <2> QED
        BY <1>5, <1>6, <2>1, <2>3, <2>4, <2>5 DEF OutcomesInv
<1>11. ASSUME QuietWalk PROVE QuietWalk'
    <2>1. y.at = Len(s1) + 1
        <3>1. Len(s1) \in Nat /\ y.at <= Len(s1) + 1
            BY <1>1, <1>2, <1>7, <1>11 DEF QuietWalk
        <3> QED
            BY <1>7, <3>1
    <2>2. Before(s1, y.at) = Sig!Range(s1)
        BY <1>7, <2>1, BehindIs
    <2>3. /\ Sig!IsInjective(s1) /\ Sig!IsInjective(y.live) /\ Sig!IsInjective(y.called)
          /\ s6 = Sig!Range(s1) \ s2 /\ s6 = Sig!Range(y.live) \ s2
          /\ s4 \cap s2 = {} /\ s4 \subseteq Sig!Range(y.called)
        BY <1>1, <1>2, <1>11, <2>2 DEF QuietWalk
    <2>4. /\ Sig!IsInjective(s1)' /\ s6 = Sig!Range(s1)' \ s2
          /\ Sig!IsInjective(s3.called)' /\ Sig!Range(s3.called)' = Sig!Range(y.called)
        <3>1. PICK l : l = s1' /\ Sig!IsInjective(l) /\ s6 = Sig!Range(l) \ s2
            BY <1>8, <2>3
        <3>2. Sig!IsInjective(s1)' /\ s6 = Sig!Range(s1)' \ s2
            BY <3>1 DEF Sig!IsInjective, Sig!Range
        <3> QED
            BY <1>5, <1>6, <2>3, <3>2 DEF Sig!IsInjective, Sig!Range
    <2> QED
        BY <1>1, <1>5, <1>6, <2>3, <2>4 DEF QuietWalk
<1> QED
    BY <1>1, <1>9, <1>10, <1>11 DEF SignalInv

\* A coroutine ends; after the last one the send is over.
LEMMA SettleStep ==
    ASSUME SignalInv, NEW i \in DOMAIN s3.out, NEW out \in {"value", "error"}, Sig!settle(i, out)
    PROVE  SignalInv'
<1>1. UNCHANGED <<s1, s2, s4, s5, s6, s7>> /\ s3.pc = "awaiting"
    BY DEF Sig!settle
<1>2. PICK y \in Walks : y = s3
    BY DEF SignalInv, SignalTypes
<1>3. PICK outs : outs = [y.out EXCEPT ![i] = out]
    OBVIOUS
<1>4. /\ y.out \in Seq(Sig!Outcomes) /\ outs \in Seq(Sig!Outcomes) /\ DOMAIN outs = DOMAIN y.out
      /\ Len(outs) = Len(y.out) /\ \A j \in DOMAIN outs : outs[j] = IF j = i THEN out ELSE y.out[j]
    <2>1. y.out \in Seq(Sig!Outcomes) /\ i \in 1 .. Len(y.out) /\ out \in Sig!Outcomes
        <3>1. y.out \in Seq(Sig!Outcomes) /\ i \in DOMAIN y.out
            BY <1>2 DEF Walks
        <3>2. out \in Sig!Outcomes
            BY DEF Sig!Outcomes
        <3> QED
            BY <3>1, <3>2, LenProperties
    <2> QED
        BY <1>3, <2>1, ExceptSeq
<1>5. PICK over \in BOOLEAN : over <=> Sig!Pending(outs) = {}
    OBVIOUS
<1>6. PICK raised \in BOOLEAN : raised <=> over /\ y.way = "asend" /\ "error" \in Sig!Range(outs)
    OBVIOUS
<1>7. PICK z : z = [y EXCEPT !.out = outs, !.pc = IF over THEN "idle" ELSE @, !.raised = raised]
    OBVIOUS
<1>8. s3' = z
    BY <1>2, <1>3, <1>5, <1>6, <1>7 DEF Sig!settle
<1>9. /\ z \in Walks /\ z.pc = (IF over THEN "idle" ELSE "awaiting") /\ z.way = y.way
      /\ z.called = y.called /\ z.out = outs /\ z.raised = raised
    BY <1>1, <1>2, <1>4, <1>7 DEF Walks
<1>10. SignalTypes'
    BY <1>1, <1>8, <1>9 DEF SignalInv, SignalTypes
<1>11. OutcomesInv'
    <2>1. Len(y.called) = Len(y.out)
          /\ (y.way = "asend" => \A j \in DOMAIN y.out : y.out[j] \in {"value", "pending", "error"})
        BY <1>1, <1>2 DEF SignalInv, OutcomesInv
    <2>2. y.way = "asend" => \A j \in DOMAIN outs : outs[j] \in {"value", "pending", "error"}
        BY <1>4, <2>1
    <2>3. over => \A j \in DOMAIN outs : outs[j] # "pending"
        BY <1>5 DEF Sig!Pending
    <2>4. over /\ ~raised /\ y.way = "asend" => \A j \in DOMAIN outs : outs[j] = "value"
        BY <1>6, <2>2, <2>3 DEF Sig!Range
    <2>5. over <=> (Sig!Pending(s3.out) = {})'
        BY <1>5, <1>8, <1>9 DEF Sig!Pending
    <2>6. raised => y.way \notin Sig!Robust /\ over
        BY <1>6 DEF Sig!Robust
    <2> QED
        BY <1>4, <1>8, <1>9, <2>1, <2>2, <2>4, <2>5, <2>6 DEF OutcomesInv
<1>12. ASSUME QuietWalk PROVE QuietWalk'
    <2>1. /\ Sig!IsInjective(s1)' /\ Sig!IsInjective(s3.called)' /\ Sig!Range(s1)' = Sig!Range(s1)
          /\ Sig!Range(s3.called)' = Sig!Range(s3.called)
        BY <1>1, <1>2, <1>8, <1>9, <1>12 DEF QuietWalk, Sig!IsInjective, Sig!Range
    <2>2. ~s3.raised
        BY <1>1 DEF SignalInv, OutcomesInv
    <2> QED
        BY <1>1, <1>8, <1>9, <1>12, <2>1, <2>2 DEF QuietWalk
<1> QED
    BY <1>1, <1>10, <1>11, <1>12 DEF SignalInv

\* Every step of a signal keeps its invariant.
LEMMA SignalStep == SignalInv /\ Sig!Next => SignalInv'
BY ConnectStep, DisconnectStep, CollectStep, SendStep, TurnStep, RaisesStep, FinishStep, SettleStep
   DEF Sig!Next

\* A signal begins without subscriptions.
LEMMA SignalInit == Sig!Init => SignalInv
<1>1. SUFFICES ASSUME Sig!Init PROVE SignalInv
    OBVIOUS
<1>2. /\ <<>> \in Seq(Receivers) /\ <<>> \in Seq(Sig!Outcomes) /\ DOMAIN <<>> = {} /\ Len(<<>>) = 0
      /\ 1 \in Nat \ {0}
    OBVIOUS
<1>3. Sig!Idle \in Walks
    BY <1>2 DEF Sig!Idle, Walks, Sig!Ways, Sig!Senders
<1>4. SignalTypes
    BY <1>1, <1>2, <1>3 DEF Sig!Init, SignalTypes
<1>5. OutcomesInv
    BY <1>1, <1>2 DEF Sig!Init, Sig!Idle, OutcomesInv, Sig!Pending
<1>6. QuietWalk
    BY <1>1, <1>2 DEF Sig!Init, Sig!Idle, QuietWalk, Sig!IsInjective, Sig!Range
<1> QED
    BY <1>4, <1>5, <1>6 DEF SignalInv

\* The invariant gives what a quiet send promises.
LEMMA QuietSendsReachAll == SignalInv => Sig!QuietSendReachesAll
<1>1. SUFFICES ASSUME SignalInv, s5
               PROVE  Sig!SendReachesAll /\ Sig!NothingLeftRunning /\ Sig!DisconnectedStaysOut
    BY DEF Sig!QuietSendReachesAll
<1>2. OutcomesInv /\ QuietWalk
    BY <1>1 DEF SignalInv
<1>3. Sig!SendReachesAll
    BY <1>2 DEF Sig!SendReachesAll, Sig!Ended, OutcomesInv, QuietWalk
<1>4. Sig!NothingLeftRunning
    BY <1>2 DEF Sig!NothingLeftRunning, Sig!Ended, OutcomesInv, Sig!Range
<1>5. Sig!DisconnectedStaysOut
    BY <1>2 DEF Sig!DisconnectedStaysOut, QuietWalk
<1> QED
    BY <1>3, <1>4, <1>5

-----------------------------------------------------------------------------
(* The cache: entries, version, deleted, calls and now are s1 to s5.        *)

Entries == {e \in [key : CacheKeys, value : Nat, expires : Nat, born : Nat] :
                e.expires = e.born + Ttl}
KeysApart(es) == \A i, j \in DOMAIN es : es[i].key = es[j].key => i = j

CacheInv ==
    /\ s1 \in Seq(Entries) /\ Len(s1) <= MaxEntries /\ KeysApart(s1)
    /\ s2 \in [CacheKeys -> Nat]
    /\ s4 \in [Callers -> {Cache!Waiting} \cup [key : CacheKeys, value : Nat]]
    /\ s5 \in Nat

\* The table without one key is a table.
LEMMA WithoutIs ==
    ASSUME CacheInv, NEW k
    PROVE  /\ Cache!Without(k) \in Seq(Entries) /\ Len(Cache!Without(k)) <= MaxEntries
           /\ KeysApart(Cache!Without(k))
<1>1. s1 \in Seq(Entries) /\ Len(s1) <= MaxEntries /\ KeysApart(s1) /\ MaxEntries \in Nat
    BY ServicesAssumption DEF CacheInv, Cache!CachingAssumption
<1>2. CASE Cache!Of(k) = {}
    BY <1>1, <1>2 DEF Cache!Without
<1>3. CASE Cache!Of(k) # {}
    <2>1. PICK i \in 1 .. Len(s1) : Cache!Without(k) = Cache!RemoveAt(s1, i)
        <3>1. PICK i : i = CHOOSE j \in Cache!Of(k) : TRUE
            OBVIOUS
        <3>2. i \in Cache!Of(k)
            BY <1>3, <3>1
        <3>3. i \in 1 .. Len(s1)
            BY <1>1, <3>2, LenProperties DEF Cache!Of
        <3>4. Cache!Without(k) = Cache!RemoveAt(s1, i)
            BY <1>3, <3>1 DEF Cache!Without
        <3> QED
            BY <3>3, <3>4
    <2>2. Cache!Without(k) = Gone(s1, i)
        BY <2>1 DEF Cache!RemoveAt, Gone
    <2>3. PICK r : r = Gone(s1, i)
        OBVIOUS
    <2>4. /\ r \in Seq(Entries) /\ Len(r) = Len(s1) - 1 /\ Len(s1) \in Nat
          /\ DOMAIN r = 1 .. Len(s1) - 1 /\ DOMAIN s1 = 1 .. Len(s1)
          /\ \A j \in 1 .. i - 1 : r[j] = s1[j]
          /\ \A j \in i .. Len(s1) - 1 : r[j] = s1[j + 1]
        BY <1>1, <2>3, RemovedAt
    <2>5. Len(r) <= MaxEntries
        BY <1>1, <2>4
    <2>6. \A j \in DOMAIN r : \E m \in DOMAIN s1 : r[j] = s1[m] /\ m = IF j < i THEN j ELSE j + 1
        <3>1. SUFFICES ASSUME NEW j \in DOMAIN r
              PROVE \E m \in DOMAIN s1 : r[j] = s1[m] /\ m = IF j < i THEN j ELSE j + 1
            OBVIOUS
        <3>2. j \in 1 .. Len(s1) - 1 /\ DOMAIN s1 = 1 .. Len(s1)
            BY <2>4
        <3>5. /\ \A m \in 1 .. i - 1 : r[m] = s1[m]
              /\ \A m \in i .. Len(s1) - 1 : r[m] = s1[m + 1]
            BY <2>4, Zenon
        <3>6. Len(s1) \in Nat
            BY <2>4, Zenon
        <3>3. CASE j < i
            <4>1. j \in 1 .. i - 1 /\ j \in DOMAIN s1
                BY <3>2, <3>3, <3>6
            <4> QED
                BY <3>3, <3>5, <4>1
        <3>4. CASE ~(j < i)
            <4>1. j \in i .. Len(s1) - 1 /\ j + 1 \in DOMAIN s1
                BY <3>2, <3>4, <3>6
            <4> QED
                BY <3>4, <3>5, <4>1
        <3> QED
            BY <3>3, <3>4
    <2>7. KeysApart(r)
        <3>1. SUFFICES ASSUME NEW a \in DOMAIN r, NEW b \in DOMAIN r, r[a].key = r[b].key
              PROVE a = b
            BY DEF KeysApart
        <3>2. PICK m \in DOMAIN s1 : r[a] = s1[m] /\ m = IF a < i THEN a ELSE a + 1
            BY <2>6
        <3>3. PICK n \in DOMAIN s1 : r[b] = s1[n] /\ n = IF b < i THEN b ELSE b + 1
            BY <2>6
        <3>4. m = n
            BY <1>1, <3>1, <3>2, <3>3 DEF KeysApart
        <3>5. a \in Nat /\ b \in Nat
            BY <2>4
        <3> QED
            BY <3>2, <3>3, <3>4, <3>5
    <2> QED
        BY <2>2, <2>3, <2>4, <2>5, <2>7
<1> QED
    BY <1>2, <1>3

\* One entry more, kept or left out.
KeptOf(o, e) == IF Cache!expired(e) THEN o ELSE Append(o, e)

\* The function of the steps of Unexpired.
Filtering(es, g) ==
    g = [i \in 0 .. Len(es) |-> IF i = 0 THEN <<>> ELSE KeptOf(g[i - 1], es[i])]

\* The function Unexpired is read off exists.
LEMMA FilteringExists ==
    ASSUME NEW S, NEW es \in Seq(S) PROVE \E g : Filtering(es, g)
<1>. DEFINE P(k, g) == g = [i \in 0 .. k |-> IF i = 0 THEN <<>> ELSE KeptOf(g[i - 1], es[i])]
            K == {k \in Nat : \E g : P(k, g)}
<1>1. 0 \in K
  <2>1. P(0, [i \in 0 .. 0 |-> <<>>])
    OBVIOUS
  <2>. QED BY <2>1
<1>2. ASSUME NEW k \in Nat, k \in K PROVE k + 1 \in K
  <2>1. PICK g : P(k, g)
    BY <1>2
  <2>. DEFINE h == [i \in 0 .. k + 1 |-> IF i = k + 1 THEN KeptOf(g[k], es[k + 1]) ELSE g[i]]
  <2>2. \A i \in 0 .. k + 1 : h[i] = IF i = 0 THEN <<>> ELSE KeptOf(h[i - 1], es[i])
    <3>1. \A i \in 0 .. k : h[i] = g[i]
      OBVIOUS
    <3>2. h[k + 1] = KeptOf(h[k], es[k + 1])
      BY <3>1
    <3>3. \A i \in 1 .. k : g[i] = KeptOf(g[i - 1], es[i])
      BY <2>1
    <3>4. g[0] = <<>>
      BY <2>1
    <3>. HIDE DEF h
    <3>5. \A i \in 1 .. k : h[i] = KeptOf(h[i - 1], es[i])
      <4>. TAKE i \in 1 .. k
      <4>1. i - 1 \in 0 .. k /\ i \in 0 .. k
        OBVIOUS
      <4>. QED BY <3>1, <3>3, <4>1
    <3>. QED BY <3>1, <3>2, <3>4, <3>5
  <2>3. P(k + 1, h)
    <3>. HIDE DEF P
    <3>1. h = [i \in 0 .. k + 1 |-> h[i]]
      OBVIOUS
    <3>. HIDE DEF h
    <3>. QED BY <2>2, <3>1 DEF P
  <2>. HIDE DEF P, h
  <2>. QED BY <2>3
<1>3. Len(es) \in K
  <2>. HIDE DEF K
  <2>. QED BY <1>1, <1>2, SetInduction
<1>. QED BY <1>3 DEF Filtering

\* ... and Unexpired is its last value.
LEMMA UnexpiredIs ==
    ASSUME NEW S, NEW es \in Seq(S)
    PROVE  \E g : Filtering(es, g) /\ Cache!Unexpired(es) = g[Len(es)]
<1>. DEFINE c == CHOOSE g : Filtering(es, g)
<1>1. Filtering(es, c)
  BY FilteringExists
<1>2. Cache!Unexpired(es) = c[Len(es)]
  BY DEF Cache!Unexpired, Filtering, KeptOf
<1>. QED BY <1>1, <1>2

\* What has not expired is part of the table, in as few entries, and holds a
\* key as often.
LEMMA UnexpiredKeeps ==
    ASSUME NEW es \in Seq(Entries), KeysApart(es)
    PROVE  /\ Cache!Unexpired(es) \in Seq(Entries) /\ Len(Cache!Unexpired(es)) <= Len(es)
           /\ KeysApart(Cache!Unexpired(es))
           /\ \A j \in DOMAIN Cache!Unexpired(es) : \E i \in DOMAIN es : Cache!Unexpired(es)[j] = es[i]
<1>1. PICK g : Filtering(es, g) /\ Cache!Unexpired(es) = g[Len(es)]
    BY UnexpiredIs
<1>. DEFINE Q(k) == /\ g[k] \in Seq(Entries) /\ Len(g[k]) <= k /\ KeysApart(g[k])
                    /\ \A j \in DOMAIN g[k] : \E i \in 1 .. k : g[k][j] = es[i]
            K == {k \in Nat : k <= Len(es) => Q(k)}
<1>2. g[0] = <<>> /\ \A k \in 0 .. Len(es) - 1 : g[k + 1] = KeptOf(g[k], es[k + 1])
    <2>1. /\ \A i \in 0 .. Len(es) : g[i] = IF i = 0 THEN <<>> ELSE KeptOf(g[i - 1], es[i])
        BY <1>1 DEF Filtering
    <2>2. \A k \in 0 .. Len(es) - 1 : k + 1 \in 0 .. Len(es) /\ k + 1 # 0 /\ k + 1 - 1 = k
        OBVIOUS
    <2>3. 0 \in 0 .. Len(es)
        OBVIOUS
    <2> QED
        BY <2>1, <2>2, <2>3
<1>3. 0 \in K
    <2>1. <<>> \in Seq(Entries) /\ Len(<<>>) = 0 /\ DOMAIN <<>> = {} /\ 0 <= 0
        OBVIOUS
    <2>2. g[0] \in Seq(Entries) /\ Len(g[0]) <= 0 /\ DOMAIN g[0] = {}
        BY <1>2, <2>1
    <2>3. Q(0)
        BY <2>2 DEF KeysApart
    <2> QED
        BY <2>3
<1>4. ASSUME NEW k \in Nat, k \in K PROVE k + 1 \in K
    <2>1. SUFFICES ASSUME k + 1 <= Len(es) PROVE Q(k + 1)
        OBVIOUS
    <2>2. Q(k) /\ k \in 0 .. Len(es) - 1 /\ k + 1 \in DOMAIN es
        BY <1>4, <2>1
    <2>3. PICK o \in Seq(Entries) : o = g[k]
        BY <2>2
    <2>4. PICK e \in Entries : e = es[k + 1]
        BY <2>2
    <2>5. CASE Cache!expired(e)
        <3>1. g[k + 1] = o
            BY <1>2, <2>2, <2>3, <2>4, <2>5 DEF KeptOf
        <3>2. Len(o) <= k + 1 /\ 1 .. k \subseteq 1 .. k + 1
            BY <2>2, <2>3
        <3> QED
            BY <2>2, <2>3, <3>1, <3>2
    <2>6. CASE ~Cache!expired(e)
        <3>1. PICK p \in Seq(Entries) :
                  /\ p = Append(o, e) /\ Len(p) = Len(o) + 1 /\ Len(o) \in Nat
                  /\ DOMAIN p = 1 .. Len(o) + 1 /\ DOMAIN o = 1 .. Len(o)
                  /\ p[Len(o) + 1] = e /\ \A j \in 1 .. Len(o) : p[j] = o[j]
            <4>1. o \in Seq(Entries) /\ e \in Entries
                OBVIOUS
            <4> QED
                BY ONLY <4>1, Appended, Zenon
        <3>2. g[k + 1] = p
            BY <1>2, <2>2, <2>3, <2>4, <2>6, <3>1 DEF KeptOf
        <3>3. /\ Len(p) = Len(o) + 1 /\ DOMAIN p = 1 .. Len(o) + 1 /\ p[Len(o) + 1] = e
              /\ \A j \in 1 .. Len(o) : p[j] = o[j]
            BY <3>1
        <3>4. ASSUME NEW j \in 1 .. Len(o) PROVE \E i \in 1 .. k : p[j] = es[i] /\ o[j] = es[i]
            <4>1. j \in DOMAIN o /\ p[j] = o[j]
                BY <3>1, <3>3
            <4>2. PICK i \in 1 .. k : o[j] = es[i]
                BY <2>2, <2>3, <4>1
            <4> QED
                BY <4>1, <4>2
        <3>5. \A j \in 1 .. Len(o) : p[j].key # e.key
            <4>1. SUFFICES ASSUME NEW j \in 1 .. Len(o), p[j].key = e.key PROVE FALSE
                OBVIOUS
            <4>2. PICK i \in 1 .. k : p[j] = es[i]
                BY <3>4
            <4>3. i \in DOMAIN es /\ i # k + 1
                BY <2>2
            <4> QED
                BY <2>2, <2>4, <4>1, <4>2, <4>3 DEF KeysApart
        <3>6. KeysApart(p)
            <4>1. SUFFICES ASSUME NEW a \in DOMAIN p, NEW b \in DOMAIN p, p[a].key = p[b].key
                  PROVE a = b
                BY DEF KeysApart
            <4>2. a \in 1 .. Len(o) \/ a = Len(o) + 1
                BY <2>3, <3>3
            <4>3. b \in 1 .. Len(o) \/ b = Len(o) + 1
                BY <2>3, <3>3
            <4>4. CASE a \in 1 .. Len(o) /\ b \in 1 .. Len(o)
                <5>1. a \in DOMAIN o /\ b \in DOMAIN o /\ o[a].key = o[b].key
                    BY <2>3, <3>3, <4>1, <4>4
                <5> QED
                    BY <2>2, <2>3, <5>1 DEF KeysApart
            <4> QED
                BY <3>3, <3>5, <4>1, <4>2, <4>3, <4>4
        <3>7. Len(p) <= k + 1
            BY <2>2, <2>3, <3>3
        <3>8. ASSUME NEW j \in DOMAIN p PROVE \E i \in 1 .. k + 1 : p[j] = es[i]
            <4>1. CASE j \in 1 .. Len(o)
                BY <3>4, <4>1
            <4>2. CASE j = Len(o) + 1
                <5>1. p[j] = es[k + 1] /\ k + 1 \in 1 .. k + 1
                    BY <2>4, <3>3, <4>2
                <5> QED
                    BY <5>1
            <4> QED
                BY <2>3, <3>3, <4>1, <4>2
        <3> QED
            BY <3>2, <3>6, <3>7, <3>8
    <2> QED
        BY <2>5, <2>6
<1>5. Q(Len(es))
    <2>1. \A n \in Nat : n \in K
        <3> HIDE DEF K
        <3> QED
            BY <1>3, <1>4, SetInduction
    <2> QED
        BY <2>1
<1> QED
    BY <1>1, <1>5

\* Making room makes some: a table that is full has space for one entry.
LEMMA EvictMakesRoom ==
    ASSUME CacheInv
    PROVE  /\ Cache!evict(s1) \in Seq(Entries) /\ Len(Cache!evict(s1)) < MaxEntries
           /\ KeysApart(Cache!evict(s1))
           /\ \A j \in DOMAIN Cache!evict(s1) : \E i \in DOMAIN s1 : Cache!evict(s1)[j] = s1[i]
<1>1. s1 \in Seq(Entries) /\ Len(s1) <= MaxEntries /\ KeysApart(s1) /\ MaxEntries \in Nat \ {0}
    BY ServicesAssumption DEF CacheInv, Cache!CachingAssumption
<1>2. PICK u \in Seq(Entries) :
          /\ u = Cache!Unexpired(s1) /\ Len(u) <= Len(s1) /\ KeysApart(u)
          /\ \A j \in DOMAIN u : \E i \in DOMAIN s1 : u[j] = s1[i]
    BY <1>1, UnexpiredKeeps
<1>3. CASE Len(u) < MaxEntries
    <2>1. Cache!evict(s1) = u
        BY <1>1, <1>2, <1>3 DEF Cache!evict
    <2> QED
        BY <1>2, <1>3, <2>1
<1>4. CASE ~(Len(u) < MaxEntries)
    <2>1. Cache!evict(s1) = Tail(u)
        BY <1>1, <1>2, <1>4 DEF Cache!evict
    <2>2. Len(u) # 0 /\ u # <<>> /\ Len(u) = MaxEntries
        BY <1>1, <1>2, <1>4
    <2>3. PICK t \in Seq(Entries) : t = Tail(u) /\ Len(t) = Len(u) - 1
                                    /\ \A j \in 1 .. Len(t) : t[j] = u[j + 1]
        <3>1. /\ Tail(u) \in Seq(Entries) /\ Len(Tail(u)) = Len(u) - 1
              /\ \A j \in 1 .. Len(Tail(u)) : Tail(u)[j] = u[j + 1]
            BY <1>2, <2>2, HeadTailProperties
        <3> QED
            BY <3>1, Zenon
    <2>4. \A j \in DOMAIN t : j + 1 \in DOMAIN u /\ t[j] = u[j + 1]
        BY <1>2, <2>3
    <2>5. KeysApart(t)
        <3>1. SUFFICES ASSUME NEW a \in DOMAIN t, NEW b \in DOMAIN t, t[a].key = t[b].key
              PROVE a = b
            BY DEF KeysApart
        <3>2. a + 1 = b + 1
            BY <1>2, <2>4, <3>1 DEF KeysApart
        <3> QED
            BY <2>3, <3>2
    <2>6. Len(t) < MaxEntries
        BY <1>1, <2>2, <2>3
    <2> QED
        BY <1>2, <2>1, <2>3, <2>4, <2>5, <2>6
<1> QED
    BY <1>3, <1>4

\* Storing a value keeps the table within its bounds.
LEMMA SetKeeps ==
    ASSUME CacheInv, NEW k \in CacheKeys, NEW v \in Nat
    PROVE  /\ Cache!set(k, v) \in Seq(Entries) /\ Len(Cache!set(k, v)) <= MaxEntries
           /\ KeysApart(Cache!set(k, v))
<1>1. s1 \in Seq(Entries) /\ Len(s1) <= MaxEntries /\ KeysApart(s1) /\ MaxEntries \in Nat \ {0}
      /\ s5 \in Nat /\ Ttl \in Nat
    BY ServicesAssumption DEF CacheInv, Cache!CachingAssumption
<1>2. PICK e \in Entries : e = Cache!Entry(k, v) /\ e.key = k
    <2>1. s5 + Ttl \in Nat
        BY <1>1
    <2>2. PICK e : e = [key |-> k, value |-> v, expires |-> s5 + Ttl, born |-> s5]
        OBVIOUS
    <2>3. e \in Entries /\ e.key = k
        BY <1>1, <2>1, <2>2 DEF Entries
    <2> QED
        BY <2>2, <2>3 DEF Cache!Entry
<1>3. CASE Cache!Of(k) # {}
    <2>1. PICK t : t = [i \in DOMAIN s1 |-> IF i \in Cache!Of(k) THEN e ELSE s1[i]]
        OBVIOUS
    <2>2. Cache!set(k, v) = t
        BY <1>2, <1>3, <2>1 DEF Cache!set
    <2>3. t \in Seq(Entries) /\ DOMAIN t = DOMAIN s1 /\ Len(t) = Len(s1)
        BY <1>1, <2>1
    <2>4. \A i \in DOMAIN t : t[i].key = s1[i].key
        BY <1>2, <2>1, <2>3 DEF Cache!Of
    <2>5. KeysApart(t)
        BY <1>1, <2>3, <2>4 DEF KeysApart
    <2> QED
        BY <1>1, <2>2, <2>3, <2>5
<1>4. CASE Cache!Of(k) = {}
    <2>1. \A i \in DOMAIN s1 : s1[i].key # k
        BY <1>4 DEF Cache!Of
    <2>2. PICK o \in Seq(Entries) :
              /\ o = IF Len(s1) >= MaxEntries THEN Cache!evict(s1) ELSE s1
              /\ Len(o) < MaxEntries /\ KeysApart(o)
              /\ \A j \in DOMAIN o : \E i \in DOMAIN s1 : o[j] = s1[i]
        <3>1. CASE Len(s1) >= MaxEntries
            BY <3>1, EvictMakesRoom
        <3>2. CASE ~(Len(s1) >= MaxEntries)
            BY <1>1, <3>2
        <3> QED
            BY <3>1, <3>2
    <2>3. PICK p \in Seq(Entries) :
              /\ p = Append(o, e) /\ Len(p) = Len(o) + 1 /\ Len(o) \in Nat
              /\ DOMAIN p = 1 .. Len(o) + 1 /\ DOMAIN o = 1 .. Len(o)
              /\ p[Len(o) + 1] = e /\ \A j \in 1 .. Len(o) : p[j] = o[j]
        <3>1. o \in Seq(Entries) /\ e \in Entries
            OBVIOUS
        <3> QED
            BY ONLY <3>1, Appended, Zenon
    <2>4. Cache!set(k, v) = p
        BY <1>2, <1>4, <2>2, <2>3 DEF Cache!set
    <2>5. /\ Len(p) = Len(o) + 1 /\ DOMAIN p = 1 .. Len(o) + 1 /\ p[Len(o) + 1] = e
          /\ \A j \in 1 .. Len(o) : p[j] = o[j] /\ j \in DOMAIN o
        BY <2>3
    <2>6. \A j \in 1 .. Len(o) : p[j].key # k
        BY <2>1, <2>2, <2>5
    <2>7. KeysApart(p)
        <3>1. SUFFICES ASSUME NEW a \in DOMAIN p, NEW b \in DOMAIN p, p[a].key = p[b].key
              PROVE a = b
            BY DEF KeysApart
        <3>2. a \in 1 .. Len(o) \/ a = Len(o) + 1
            BY <2>2, <2>5
        <3>3. b \in 1 .. Len(o) \/ b = Len(o) + 1
            BY <2>2, <2>5
        <3>4. CASE a \in 1 .. Len(o) /\ b \in 1 .. Len(o)
            <4>1. p[a] = o[a] /\ p[b] = o[b] /\ a \in DOMAIN o /\ b \in DOMAIN o
                BY <2>5, <3>4, Zenon
            <4>2. o[a].key = o[b].key
                BY <3>1, <4>1, Zenon
            <4> QED
                BY <2>2, <4>1, <4>2, Zenon DEF KeysApart
        <3> QED
            BY <1>2, <2>5, <2>6, <3>1, <3>2, <3>3, <3>4
    <2>8. Len(p) <= MaxEntries
        BY <1>1, <2>2, <2>5
    <2> QED
        BY <2>4, <2>7, <2>8
<1> QED
    BY <1>3, <1>4

\* Hits, misses, stores, deletions and the clock keep the cache's invariant.
LEMMA CacheStep == CacheInv /\ Cache!Next => CacheInv'
<1>1. SUFFICES ASSUME CacheInv, Cache!Next PROVE CacheInv'
    OBVIOUS
<1>2. /\ s2 \in [CacheKeys -> Nat] /\ s5 \in Nat
      /\ s4 \in [Callers -> {Cache!Waiting} \cup [key : CacheKeys, value : Nat]]
    BY <1>1 DEF CacheInv
<1>3. ASSUME NEW c \in Callers, NEW k \in CacheKeys, Cache!Call(c, k) PROVE CacheInv'
    <2>1. UNCHANGED <<s2, s5>>
        BY <1>3 DEF Cache!Call
    <2>2. CASE UNCHANGED <<s1, s4>>
        BY <1>1, <2>1, <2>2 DEF CacheInv, KeysApart
    <2>3. CASE ~UNCHANGED <<s1, s4>>
        <3>1. s1' = Cache!Without(k) /\ s4' = [s4 EXCEPT ![c] = [key |-> k, value |-> s2[k]]]
            BY <1>3, <2>3 DEF Cache!Call
        <3>2. s4' \in [Callers -> {Cache!Waiting} \cup [key : CacheKeys, value : Nat]]
            BY <1>2, <3>1
        <3>3. s1' \in Seq(Entries) /\ Len(s1') <= MaxEntries /\ KeysApart(s1')
            BY <1>1, <3>1, WithoutIs
        <3> QED
            BY <1>2, <2>1, <3>2, <3>3 DEF CacheInv, KeysApart
    <2> QED
        BY <2>2, <2>3
<1>4. ASSUME NEW c \in Callers, Cache!Computed(c) PROVE CacheInv'
    <2>1. PICK d \in [key : CacheKeys, value : Nat] : d = s4[c]
        BY <1>2, <1>4 DEF Cache!Computed
    <2>2. UNCHANGED <<s2, s5>> /\ s1' = Cache!set(d.key, d.value)
          /\ s4' = [s4 EXCEPT ![c] = Cache!Waiting]
        BY <1>4, <2>1 DEF Cache!Computed
    <2>3. s1' \in Seq(Entries) /\ Len(s1') <= MaxEntries /\ KeysApart(s1')
        BY <1>1, <2>1, <2>2, SetKeeps
    <2>4. s4' \in [Callers -> {Cache!Waiting} \cup [key : CacheKeys, value : Nat]]
        BY <1>2, <2>2
    <2> QED
        BY <1>2, <2>2, <2>3, <2>4 DEF CacheInv, KeysApart
<1>5. ASSUME NEW k \in CacheKeys, Cache!Invalidate(k) PROVE CacheInv'
    <2>1. UNCHANGED <<s4, s5>> /\ s1' = Cache!Without(k) /\ s2' = [s2 EXCEPT ![k] = @ + 1]
        BY <1>5 DEF Cache!Invalidate
    <2>2. s2' \in [CacheKeys -> Nat]
        BY <1>2, <2>1
    <2>3. s1' \in Seq(Entries) /\ Len(s1') <= MaxEntries /\ KeysApart(s1')
        BY <1>1, <2>1, WithoutIs
    <2> QED
        BY <1>2, <2>1, <2>2, <2>3 DEF CacheInv, KeysApart
<1>6. CASE Cache!Tick
    <2>1. UNCHANGED <<s1, s2, s4>> /\ s5' \in Nat
        BY <1>2, <1>6 DEF Cache!Tick
    <2> QED
        BY <1>1, <2>1 DEF CacheInv, KeysApart
<1> QED
    BY <1>1, <1>3, <1>4, <1>5, <1>6 DEF Cache!Next

\* The empty cache is within its bounds.
LEMMA CacheInit == Cache!Init => CacheInv
<1>1. SUFFICES ASSUME Cache!Init PROVE CacheInv
    OBVIOUS
<1>2. <<>> \in Seq(Entries) /\ Len(<<>>) = 0 /\ DOMAIN <<>> = {}
    OBVIOUS
<1>3. MaxEntries \in Nat
    BY ServicesAssumption DEF Cache!CachingAssumption
<1>4. s1 \in Seq(Entries) /\ Len(s1) <= MaxEntries /\ KeysApart(s1)
    BY <1>1, <1>2, <1>3 DEF Cache!Init, KeysApart
<1> QED
    BY <1>1, <1>4 DEF Cache!Init, CacheInv

\* The invariant gives the bounds.
LEMMA CacheIsBounded == CacheInv => Cache!CacheKeepsItsBounds
<1>1. SUFFICES ASSUME CacheInv PROVE Cache!CacheKeepsItsBounds
    OBVIOUS
<1>2. s1 \in Seq(Entries) /\ Len(s1) <= MaxEntries /\ KeysApart(s1) /\ s5 \in Nat /\ Ttl \in Nat
    BY <1>1, ServicesAssumption DEF CacheInv, Cache!CachingAssumption
<1>3. Cache!IsInjective([i \in DOMAIN s1 |-> s1[i].key])
    BY <1>2 DEF Cache!IsInjective, KeysApart
<1>4. ASSUME NEW e \in Cache!Servable PROVE s5 - e.born < Ttl
    <2>1. e \in Entries /\ ~(e.expires <= s5)
        BY <1>2, <1>4 DEF Cache!Servable, Cache!Range, Cache!expired
    <2>2. e.born \in Nat /\ e.expires = e.born + Ttl
        BY <2>1 DEF Entries
    <2> QED
        BY <1>2, <2>1, <2>2
<1> QED
    BY <1>2, <1>3, <1>4 DEF Cache!CacheKeepsItsBounds

-----------------------------------------------------------------------------
(* Event streams: made, source, pending, frames, pings and pc are s1 to s6. *)

StreamTypes ==
    /\ s1 \in Nat /\ s2 \in {"running", "ended", "closed"}
    /\ s3 \in {"none", "asked", "event", "stop"} /\ s4 \in Seq(Nat) /\ s5 \in Nat
    /\ s6 \in {"loop", "at yield", "over"}

\* The events on the wire are the first n.
SentUpTo(n) ==
    /\ \A i, j \in Sse!Events : i < j => s4[i] < s4[j]
    /\ {s4[i] : i \in Sse!Events} = 1 .. n

StreamInv ==
    /\ StreamTypes
    /\ \E n \in 0 .. s1 :
         /\ SentUpTo(n)
         /\ s6 # "over" => n = s1 - (IF s3 = "event" THEN 1 ELSE 0)

\* A ping between the events moves none of them.
LEMMA PingsAreNoEvents ==
    ASSUME StreamTypes, NEW n \in Nat, SentUpTo(n), s4' = Append(s4, 0)
    PROVE  s4' \in Seq(Nat) /\ SentUpTo(n)'
<1>1. PICK r \in Seq(Nat) : /\ r = Append(s4, 0) /\ Len(r) = Len(s4) + 1 /\ Len(s4) \in Nat
                            /\ DOMAIN r = 1 .. Len(s4) + 1 /\ DOMAIN s4 = 1 .. Len(s4)
                            /\ r[Len(s4) + 1] = 0 /\ \A j \in 1 .. Len(s4) : r[j] = s4[j]
    <2>1. s4 \in Seq(Nat) /\ 0 \in Nat
        BY DEF StreamTypes
    <2> QED
        BY ONLY <2>1, Appended, Zenon
<1>2. s4' = r
    BY <1>1
<1>3. Sse!Events' = Sse!Events
    BY <1>1, <1>2 DEF Sse!Events
<1>4. \A i \in Sse!Events : i \in 1 .. Len(s4) /\ s4'[i] = s4[i]
    BY <1>1, <1>2 DEF Sse!Events
<1>5. {s4'[i] : i \in Sse!Events} = {s4[i] : i \in Sse!Events}
    BY <1>4
<1> QED
    BY <1>1, <1>2, <1>3, <1>4, <1>5 DEF SentUpTo

\* The next event comes after the others.
LEMMA EventIsNext ==
    ASSUME StreamTypes, NEW n \in Nat, SentUpTo(n), NEW m \in Nat, m = n + 1,
           s4' = Append(s4, m)
    PROVE  s4' \in Seq(Nat) /\ SentUpTo(m)'
<1>1. PICK r \in Seq(Nat) : /\ r = Append(s4, m) /\ Len(r) = Len(s4) + 1 /\ Len(s4) \in Nat
                            /\ DOMAIN r = 1 .. Len(s4) + 1 /\ DOMAIN s4 = 1 .. Len(s4)
                            /\ r[Len(s4) + 1] = m /\ \A j \in 1 .. Len(s4) : r[j] = s4[j]
    <2>1. s4 \in Seq(Nat) /\ m \in Nat
        BY DEF StreamTypes
    <2>2. /\ Append(s4, m) \in Seq(Nat) /\ Len(Append(s4, m)) = Len(s4) + 1
          /\ Append(s4, m)[Len(s4) + 1] = m /\ \A j \in 1 .. Len(s4) : Append(s4, m)[j] = s4[j]
        BY <2>1, AppendProperties
    <2>3. /\ Len(s4) \in Nat /\ DOMAIN s4 = 1 .. Len(s4)
          /\ DOMAIN Append(s4, m) = 1 .. Len(s4) + 1
        BY <2>1, <2>2, LenProperties
    <2> QED
        BY <2>2, <2>3, Zenon
<1>2. s4' = r
    BY <1>1
<1>3. Sse!Events' = Sse!Events \cup {Len(s4) + 1}
    BY <1>1, <1>2 DEF Sse!Events
<1>4. \A i \in Sse!Events : i \in 1 .. Len(s4) /\ s4'[i] = s4[i]
    BY <1>1, <1>2 DEF Sse!Events
<1>5. s4'[Len(s4) + 1] = m
    BY <1>1, <1>2
<1>6. \A i \in Sse!Events : s4[i] \in 1 .. n
    BY DEF SentUpTo
<1>7. ASSUME NEW i \in Sse!Events', NEW j \in Sse!Events', i < j PROVE s4'[i] < s4'[j]
    <2>1. i \in Sse!Events
        BY <1>1, <1>3, <1>4, <1>7
    <2>2. CASE j \in Sse!Events
        BY <1>4, <1>7, <2>1, <2>2 DEF SentUpTo
    <2>3. CASE j = Len(s4) + 1
        <3>1. s4'[i] \in 1 .. n /\ s4'[j] = m
            BY <1>4, <1>5, <1>6, <2>1, <2>3
        <3>2. PICK a \in 1 .. n : a = s4'[i]
            BY <3>1
        <3>3. a < m
            OBVIOUS
        <3> QED
            BY <3>1, <3>2, <3>3
    <2> QED
        BY <1>3, <2>2, <2>3
<1>8. {s4'[i] : i \in Sse!Events'} = 1 .. m
    <2>1. {s4'[i] : i \in Sse!Events'} = {s4[i] : i \in Sse!Events} \cup {m}
        BY <1>3, <1>4, <1>5
    <2>2. 1 .. m = (1 .. n) \cup {m}
        OBVIOUS
    <2> QED
        BY <2>1, <2>2 DEF SentUpTo
<1> QED
    BY <1>1, <1>2, <1>7, <1>8 DEF SentUpTo

\* Whatever happens to the wait, what was made is on the wire or in the future.
LEMMA StreamStep == StreamInv /\ Sse!Next => StreamInv'
<1>1. SUFFICES ASSUME StreamInv, Sse!Next PROVE StreamInv'
    OBVIOUS
<1>2. StreamTypes
    BY <1>1 DEF StreamInv
<1>3. PICK n : /\ n \in 0 .. s1 /\ SentUpTo(n)
               /\ s6 # "over" => n = s1 - (IF s3 = "event" THEN 1 ELSE 0)
    BY <1>1 DEF StreamInv
<1>4. n \in Nat /\ n <= s1 /\ s1 \in Nat
    <2>1. n \in 0 .. s1 /\ s1 \in Nat
        BY <1>2, <1>3 DEF StreamTypes
    <2> QED
        BY <2>1
<1>5. CASE Sse!Ask \/ Sse!Resume \/ Sse!Abandon
    <2>1. UNCHANGED <<s1, s4>> /\ SentUpTo(n)'
        BY <1>3, <1>5 DEF Sse!Ask, Sse!Resume, Sse!Abandon, SentUpTo, Sse!Events
    <2>2. StreamTypes'
        BY <1>2, <1>5 DEF Sse!Ask, Sse!Resume, Sse!Abandon, StreamTypes
    <2>3. s6' # "over" => s6 # "over" /\ (s3' = "event" <=> s3 = "event")
        BY <1>5 DEF Sse!Ask, Sse!Resume, Sse!Abandon
    <2> QED
        BY <1>3, <1>4, <2>1, <2>2, <2>3 DEF StreamInv
<1>6. CASE Sse!Produce
    <2>1. UNCHANGED <<s4, s6>> /\ SentUpTo(n)'
        BY <1>3, <1>6 DEF Sse!Produce, SentUpTo, Sse!Events
    <2>2. s3 = "asked" /\ \/ s1' = s1 + 1 /\ s3' = "event" /\ UNCHANGED s2 /\ UNCHANGED s5
                          \/ s3' = "stop" /\ s2' = "ended" /\ UNCHANGED s1 /\ UNCHANGED s5
        BY <1>6 DEF Sse!Produce
    <2>5. s1' \in Nat
        BY <1>4, <2>2
    <2>3. StreamTypes'
        BY <1>2, <2>1, <2>2, <2>5 DEF StreamTypes
    <2>4. n \in 0 .. s1' /\ (s6' # "over" => n = s1' - (IF s3' = "event" THEN 1 ELSE 0))
        BY <1>3, <1>4, <2>1, <2>2
    <2> QED
        BY <2>1, <2>3, <2>4 DEF StreamInv
<1>7. CASE Sse!Ping
    <2>1. UNCHANGED <<s1, s2, s3>> /\ s4' = Append(s4, 0) /\ s5' = s5 + 1 /\ s6 = "loop" /\ s6' = "at yield"
        BY <1>7 DEF Sse!Ping
    <2>2. s4' \in Seq(Nat) /\ SentUpTo(n)'
        BY <1>2, <1>3, <1>4, <2>1, PingsAreNoEvents
    <2>4. s5' \in Nat
        <3>1. s5 \in Nat /\ s5' = s5 + 1
            BY <1>2, <1>7 DEF StreamTypes, Sse!Ping
        <3> QED
            BY <3>1
    <2>3. StreamTypes'
        BY <1>2, <2>1, <2>2, <2>4 DEF StreamTypes
    <2> QED
        BY <1>3, <1>4, <2>1, <2>2, <2>3 DEF StreamInv
<1>8. CASE Sse!Deliver
    <2>1. UNCHANGED <<s1, s2, s5>> /\ s3' = "none" /\ s6 = "loop"
        BY <1>8 DEF Sse!Deliver
    <2>2. CASE s3 = "stop"
        <3>1. s6' = "over" /\ UNCHANGED s4
            BY <1>8, <2>2 DEF Sse!Deliver
        <3>2. SentUpTo(n)' /\ StreamTypes'
            BY <1>2, <1>3, <2>1, <3>1 DEF SentUpTo, Sse!Events, StreamTypes
        <3> QED
            BY <1>4, <2>1, <3>1, <3>2 DEF StreamInv
    <2>3. CASE s3 = "event"
        <3>1. s6' = "at yield" /\ s4' = Append(s4, s1) /\ n + 1 = s1
            <4>1. s6' = "at yield" /\ s4' = Append(s4, s1)
                BY <1>8, <2>3 DEF Sse!Deliver
            <4>2. n = s1 - 1
                BY <1>3, <2>1, <2>3
            <4>3. n + 1 = s1
                BY <1>4, <4>2
            <4> QED
                BY <4>1, <4>3
        <3>2. PICK m \in Nat : m = s1
            BY <1>4
        <3>3. s4' = Append(s4, m) /\ m = n + 1
            BY <3>1, <3>2
        <3>4. s4' \in Seq(Nat) /\ SentUpTo(m)'
            BY <1>2, <1>3, <1>4, <3>3, EventIsNext
        <3>5. StreamTypes'
            BY <1>2, <2>1, <3>1, <3>4 DEF StreamTypes
        <3>6. m \in 0 .. s1' /\ m = s1' - 0
            BY <1>4, <2>1, <3>2
        <3> QED
            BY <2>1, <3>4, <3>5, <3>6 DEF StreamInv
    <2> QED
        BY <1>8, <2>2, <2>3 DEF Sse!Deliver
<1> QED
    BY <1>1, <1>5, <1>6, <1>7, <1>8 DEF Sse!Next

\* Nothing was made and nothing sent.
LEMMA StreamInit == Sse!Init => StreamInv
<1>1. SUFFICES ASSUME Sse!Init PROVE StreamInv
    OBVIOUS
<1>2. <<>> \in Seq(Nat) /\ DOMAIN <<>> = {} /\ 1 .. 0 = {} /\ 0 \in 0 .. 0 /\ 0 = 0 - 0
    OBVIOUS
<1>3. StreamTypes /\ s1 = 0 /\ s3 = "none" /\ s4 = <<>>
    BY <1>1, <1>2 DEF Sse!Init, StreamTypes
<1>4. Sse!Events = {}
    BY <1>2, <1>3 DEF Sse!Events
<1>5. SentUpTo(0)
    BY <1>2, <1>4 DEF SentUpTo
<1> QED
    BY <1>2, <1>3, <1>5 DEF StreamInv

\* The invariant gives the promise of the ping.
LEMMA StreamIsWhole == StreamInv => Sse!PingsLoseNothing
BY DEF StreamInv, SentUpTo, Sse!PingsLoseNothing

-----------------------------------------------------------------------------
(* Subscriptions: sinks, streams, plain, walk, walks and heard are s1 to    *)
(* s6.                                                                      *)

Ids == StreamIds \cup {Subs!Hole}
Pairs == Peers \X Ids
FanOuts == [at : {"idle", "session", "plain", "streams", "told", "failed"}, rest : Seq(Peers),
            pos : Nat, size : Nat, due : SUBSET Pairs, calm : BOOLEAN]

FanOutTypes ==
    /\ s1 \in Seq(Peers) /\ s2 \in [Peers -> Seq(Ids)] /\ s3 \in SUBSET Peers
    /\ s4 \in FanOuts /\ s6 \in SUBSET Pairs
    /\ s4.at = "idle" => s4 = Subs!Idle
    /\ s4.at \in {"plain", "streams"} => s4.rest # <<>>

\* The walk y has still to come to what id of the session it is at.
ToCome(y, streams, s, id) ==
    \/ y.at = "session"
    \/ y.at = "plain" /\ id # Subs!Hole
    \/ y.at = "streams" /\ id # Subs!Hole /\ \E i \in DOMAIN streams[s] : i > y.pos /\ streams[s][i] = id

\* What the session s is owed on id was sent, or it is among the rest.
Owed(y, streams, heard, s, id) ==
    \/ <<s, id>> \in heard
    \/ \E j \in DOMAIN y.rest : y.rest[j] = s /\ (j = 1 => ToCome(y, streams, s, id))

\* What is due is there: the session subscribed, or the stream open.
Stands(streams, plain, s, id) ==
    IF id = Subs!Hole THEN s \in plain ELSE \E i \in DOMAIN streams[s] : streams[s][i] = id

\* How far a walk no stream was opened or closed under has come.
CalmWalk ==
    /\ s4.at # "failed"
    /\ s4.at = "told" => s4.rest = <<>>
    /\ s4.at = "streams" => s4.size = Subs!Size(Head(s4.rest))
    /\ \A s \in Peers, id \in Ids : <<s, id>> \in s4.due =>
         Stands(s2, s3, s, id) /\ Owed(s4, s2, s6, s, id)

SubsInv == FanOutTypes /\ (s4.calm => CalmWalk)

\* A set of naturals that is not empty has a least element.
LEMMA LeastOf ==
    ASSUME NEW A, A \subseteq Nat, A # {}
    PROVE  \E i \in A : \A k \in A : i <= k
<1>1. SUFFICES ASSUME \A i \in A : \E k \in A : ~(i <= k) PROVE FALSE
    OBVIOUS
<1> DEFINE K == {n \in Nat : \A k \in A : n <= k}
<1>2. 0 \in K
    OBVIOUS
<1>3. ASSUME NEW n \in Nat, n \in K PROVE n + 1 \in K
    <2>1. n \notin A
        BY <1>1, <1>3
    <2>2. ASSUME NEW k \in A PROVE n + 1 <= k
        <3>1. n <= k /\ k # n /\ k \in Nat
            BY <1>3, <2>1
        <3> QED
            BY <3>1
    <2> QED
        BY <2>2
<1>4. \A n \in Nat : n \in K
    <2> HIDE DEF K
    <2> QED
        BY <1>2, <1>3, SetInduction
<1>5. PICK a \in A : TRUE
    OBVIOUS
<1>6. a + 1 \in Nat /\ ~(a + 1 <= a)
    OBVIOUS
<1> QED
    BY <1>4, <1>5, <1>6

\* The number of open streams is a number.
LEMMA SizeIsNat == ASSUME FanOutTypes, NEW s \in Peers PROVE Subs!Size(s) \in Nat
<1>1. s2[s] \in Seq(Ids)
    BY DEF FanOutTypes
<1>2. Len(s2[s]) \in Nat /\ DOMAIN s2[s] = 1 .. Len(s2[s])
    BY <1>1, LenProperties
<1>3. IsFiniteSet(DOMAIN s2[s])
    BY <1>2, FS_Interval
<1>4. PICK O \in SUBSET DOMAIN s2[s] : O = {i \in DOMAIN s2[s] : s2[s][i] # Subs!Hole}
    OBVIOUS
<1>5. IsFiniteSet(O)
    BY <1>3, FS_Subset
<1>6. Cardinality(O) \in Nat
    BY <1>5, FS_CardinalityType
<1>7. Subs!Size(s) = Cardinality(O)
    BY <1>4 DEF Subs!Size, Subs!Cardinality, Cardinality
<1> QED
    BY <1>6, <1>7

\* A change of the streams outside a walk concerns nobody; in a walk it ends
\* the calm.
LEMMA DisturbedWalk ==
    ASSUME SubsInv, NEW gone, s4' = Subs!Disturbed(gone), s2' \in [Peers -> Seq(Ids)],
           s1' \in Seq(Peers), UNCHANGED <<s3, s6>>
    PROVE  SubsInv'
<1>1. PICK y \in FanOuts : y = s4
    BY DEF SubsInv, FanOutTypes
<1>2. CASE s4 = Subs!Idle
    <2>1. s4' = s4 /\ s4.due = {} /\ s4.at = "idle" /\ s4.rest = <<>>
        BY <1>2 DEF Subs!Disturbed, Subs!Idle
    <2>2. FanOutTypes'
        BY <2>1 DEF SubsInv, FanOutTypes, Subs!Idle
    <2>3. CalmWalk'
        BY <2>1 DEF CalmWalk
    <2> QED
        BY <2>2, <2>3 DEF SubsInv
<1>3. CASE s4 # Subs!Idle
    <2>1. PICK d \in SUBSET Pairs : d = y.due \ gone
        BY DEF FanOuts
    <2>2. PICK z : z = [y EXCEPT !.due = d, !.calm = FALSE]
        OBVIOUS
    <2>3. s4' = z
        BY <1>1, <1>3, <2>1, <2>2 DEF Subs!Disturbed
    <2>4. z \in FanOuts /\ z.at = y.at /\ z.rest = y.rest /\ ~z.calm
        BY <2>2 DEF FanOuts
    <2>5. FanOutTypes'
        BY <1>1, <1>3, <2>3, <2>4 DEF SubsInv, FanOutTypes
    <2> QED
        BY <2>3, <2>4, <2>5 DEF SubsInv
<1> QED
    BY <1>2, <1>3

\* A session is registered.
LEMMA RegisterStep == ASSUME SubsInv, NEW s \in Peers, Subs!register_connection(s) PROVE SubsInv'
<1>1. s1' = Append(s1, s) /\ UNCHANGED <<s2, s3, s4, s6>>
    BY DEF Subs!register_connection
<1>2. s1' \in Seq(Peers)
    <2>1. s1 \in Seq(Peers)
        BY DEF SubsInv, FanOutTypes
    <2> QED
        BY <1>1, <2>1, AppendProperties
<1>3. FanOutTypes'
    BY <1>1, <1>2 DEF SubsInv, FanOutTypes
<1>4. Subs!Size(Head(s4.rest))' = Subs!Size(Head(s4.rest))
    BY <1>1 DEF Subs!Size
<1>5. CalmWalk => CalmWalk'
    BY <1>1, <1>4 DEF CalmWalk
<1> QED
    BY <1>1, <1>3, <1>5 DEF SubsInv

\* A session goes, and its streams with it.
LEMMA UnregisterStep == ASSUME SubsInv, NEW s \in Peers, Subs!unregister_connection(s) PROVE SubsInv'
<1>1. PICK i \in DOMAIN s1 : s1[i] = s /\ s1' = Subs!RemoveAt(s1, i)
    BY DEF Subs!unregister_connection
<1>2. s1 \in Seq(Peers) /\ s2 \in [Peers -> Seq(Ids)]
    BY DEF SubsInv, FanOutTypes
<1>3. s1' = Gone(s1, i) /\ i \in 1 .. Len(s1)
    BY <1>1, <1>2 DEF Subs!RemoveAt, Gone
<1>4. s1' \in Seq(Peers)
    BY <1>2, <1>3, RemovedAt
<1>5. s2' = [s2 EXCEPT ![s] = <<>>] /\ <<>> \in Seq(Ids)
    BY DEF Subs!unregister_connection
<1>6. s2' \in [Peers -> Seq(Ids)]
    BY <1>2, <1>5
<1>7. PICK gone : s4' = Subs!Disturbed(gone)
    BY DEF Subs!unregister_connection
<1> QED
    BY <1>4, <1>6, <1>7, DisturbedWalk DEF Subs!unregister_connection

\* A stream is opened.
LEMMA ListenStep ==
    ASSUME SubsInv, NEW s \in Peers, NEW id \in StreamIds, Subs!_listen(s, id)
    PROVE  SubsInv'
<1>1. s1 \in Seq(Peers) /\ s2 \in [Peers -> Seq(Ids)] /\ id \in Ids
    BY DEF SubsInv, FanOutTypes, Ids
<1>2. PICK l \in Seq(Ids) : s2' = [s2 EXCEPT ![s] = l]
    <2>1. s2[s] \in Seq(Ids)
        BY <1>1
    <2>2. Append(s2[s], id) \in Seq(Ids)
        BY <1>1, <2>1, AppendProperties
    <2>3. CASE id \in Subs!Open(s)
        BY <2>1, <2>3 DEF Subs!_listen
    <2>4. CASE id \notin Subs!Open(s)
        BY <2>2, <2>4 DEF Subs!_listen
    <2> QED
        BY <2>3, <2>4
<1>3. s2' \in [Peers -> Seq(Ids)]
    BY <1>1, <1>2
<1> QED
    BY <1>1, <1>3, DisturbedWalk DEF Subs!_listen

\* A stream is closed.
LEMMA CloseStep ==
    ASSUME SubsInv, NEW s \in Peers, NEW id \in StreamIds, Subs!close_listen_stream(s, id)
    PROVE  SubsInv'
<1>1. s1 \in Seq(Peers) /\ s2 \in [Peers -> Seq(Ids)] /\ Subs!Hole \in Ids
    BY DEF SubsInv, FanOutTypes, Ids
<1>2. PICK l : l = [i \in DOMAIN s2[s] |-> IF s2[s][i] = id THEN Subs!Hole ELSE s2[s][i]]
    OBVIOUS
<1>3. l \in Seq(Ids)
    <2>1. s2[s] \in Seq(Ids)
        BY <1>1
    <2>2. Len(s2[s]) \in Nat /\ DOMAIN s2[s] = 1 .. Len(s2[s]) /\ \A i \in DOMAIN s2[s] : s2[s][i] \in Ids
        BY <2>1, LenProperties, ElementOfSeq
    <2>3. \A i \in 1 .. Len(s2[s]) : (IF s2[s][i] = id THEN Subs!Hole ELSE s2[s][i]) \in Ids
        BY <1>1, <2>2
    <2> QED
        BY <1>2, <2>2, <2>3
<1>4. s2' = [s2 EXCEPT ![s] = l]
    BY <1>1, <1>2 DEF Subs!close_listen_stream
<1>5. s2' \in [Peers -> Seq(Ids)]
    BY <1>1, <1>3, <1>4
<1> QED
    BY <1>1, <1>5, DisturbedWalk DEF Subs!close_listen_stream

\* A resource is subscribed to, or no longer.
LEMMA SubscribeStep == ASSUME SubsInv, NEW s \in Peers, Subs!Subscribe(s) PROVE SubsInv'
<1>1. /\ UNCHANGED <<s1, s2, s6>> /\ s3' = (s3 \cup {s}) \ (s3 \cap {s})
      /\ s4' = [s4 EXCEPT !.due = @ \ {<<s, Subs!Hole>>}]
    BY DEF Subs!Subscribe
<1>2. PICK y \in FanOuts : y = s4
    BY DEF SubsInv, FanOutTypes
<1>3. PICK d \in SUBSET Pairs : d = y.due \ {<<s, Subs!Hole>>}
    BY DEF FanOuts
<1>4. PICK z : z = [y EXCEPT !.due = d]
    OBVIOUS
<1>5. s4' = z
    BY <1>1, <1>2, <1>3, <1>4
<1>6. /\ z \in FanOuts /\ z.at = y.at /\ z.rest = y.rest /\ z.pos = y.pos /\ z.size = y.size
      /\ z.due = d /\ z.calm = y.calm
    BY <1>4 DEF FanOuts
<1>7. FanOutTypes'
    <2>1. y.at = "idle" => z = Subs!Idle
        <3>1. SUFFICES ASSUME y.at = "idle" PROVE z = Subs!Idle
            OBVIOUS
        <3>2. y = Subs!Idle
            BY <1>2, <3>1 DEF SubsInv, FanOutTypes
        <3>3. d = {}
            BY <1>3, <3>2 DEF Subs!Idle
        <3> QED
            BY <1>4, <3>2, <3>3 DEF Subs!Idle
    <2>2. s3' \in SUBSET Peers
        BY <1>1 DEF SubsInv, FanOutTypes
    <2> QED
        BY <1>1, <1>2, <1>5, <1>6, <2>1, <2>2 DEF SubsInv, FanOutTypes
<1>8. ASSUME CalmWalk PROVE CalmWalk'
    <2>1. \A t \in Peers, id \in Ids : <<t, id>> \in d =>
            /\ <<t, id>> \in y.due /\ ~(t = s /\ id = Subs!Hole)
        BY <1>3
    <2>2. ASSUME NEW t \in Peers, NEW id \in Ids, <<t, id>> \in d
          PROVE  Stands(s2', s3', t, id) /\ Owed(z, s2', s6', t, id)
        <3>1. Stands(s2, s3, t, id) /\ Owed(y, s2, s6, t, id)
            BY <1>2, <1>8, <2>1, <2>2 DEF CalmWalk
        <3>2. Stands(s2', s3', t, id)
            BY <1>1, <2>1, <2>2, <3>1 DEF Stands
        <3>3. Owed(z, s2', s6', t, id)
            BY <1>1, <1>6, <3>1 DEF Owed, ToCome
        <3> QED
            BY <3>2, <3>3
    <2>3. z.at = "streams" => z.size = Subs!Size(Head(z.rest))'
        BY <1>1, <1>2, <1>5, <1>6, <1>8 DEF CalmWalk, Subs!Size
    <2> QED
        BY <1>2, <1>5, <1>6, <1>8, <2>2, <2>3 DEF CalmWalk
<1> QED
    BY <1>2, <1>5, <1>6, <1>7, <1>8 DEF SubsInv

\* A fan-out begins, over a copy of the sessions.
LEMMA NotifyStep == ASSUME SubsInv, Subs!notify_updated PROVE SubsInv'
<1>1. /\ UNCHANGED <<s1, s2, s3, s6>> /\ s4.at = "idle"
      /\ s4' = [Subs!Idle EXCEPT !.at = "session", !.rest = s1, !.due = Subs!Due]
    BY DEF Subs!notify_updated
<1>2. s1 \in Seq(Peers) /\ s3 \in SUBSET Peers /\ s2 \in [Peers -> Seq(Ids)]
    BY DEF SubsInv, FanOutTypes
<1>3. ASSUME NEW p \in Subs!Due
      PROVE  \E s \in Peers, id \in Ids : /\ p = <<s, id>> /\ Subs!Connected(s)
                                          /\ Stands(s2, s3, s, id)
    <2>1. CASE \E s \in s3 : Subs!Connected(s) /\ p = <<s, Subs!Hole>>
        <3>1. PICK s \in s3 : Subs!Connected(s) /\ p = <<s, Subs!Hole>>
            BY <2>1
        <3>2. s \in Peers /\ Subs!Hole \in Ids /\ Stands(s2, s3, s, Subs!Hole)
            BY <1>2 DEF Ids, Stands
        <3> QED
            BY <3>1, <3>2
    <2>2. CASE \E s \in Peers : Subs!Connected(s) /\ \E id \in Subs!Open(s) : p = <<s, id>>
        <3>6. PICK s \in Peers : Subs!Connected(s) /\ \E id \in Subs!Open(s) : p = <<s, id>>
            BY <2>2
        <3>1. PICK id \in Subs!Open(s) : Subs!Connected(s) /\ p = <<s, id>>
            BY <3>6
        <3>2. PICK i \in DOMAIN s2[s] : s2[s][i] = id /\ id # Subs!Hole
            BY DEF Subs!Open
        <3>3. s2[s] \in Seq(Ids)
            BY <1>2
        <3>4. id \in Ids
            BY <3>2, <3>3, LenProperties, ElementOfSeq
        <3>5. Stands(s2, s3, s, id)
            BY <3>2 DEF Stands
        <3> QED
            BY <3>1, <3>4, <3>5
    <2> QED
        BY <1>3, <2>1, <2>2 DEF Subs!Due
<1>4. PICK d \in SUBSET Pairs : d = Subs!Due
    BY <1>3 DEF Pairs
<1>5. PICK z : z = [Subs!Idle EXCEPT !.at = "session", !.rest = s1, !.due = d]
    OBVIOUS
<1>6. /\ z \in FanOuts /\ z.at = "session" /\ z.rest = s1 /\ z.due = d
    BY <1>2, <1>5 DEF Subs!Idle, FanOuts
<1>7. s4' = z
    BY <1>1, <1>4, <1>5
<1>8. FanOutTypes'
    BY <1>1, <1>6, <1>7 DEF SubsInv, FanOutTypes
<1>9. ASSUME NEW s \in Peers, NEW id \in Ids, <<s, id>> \in d
      PROVE  Stands(s2', s3', s, id) /\ Owed(z, s2', s6', s, id)
    <2>1. Subs!Connected(s) /\ Stands(s2, s3, s, id)
        BY <1>3, <1>4, <1>9
    <2>2. \E j \in DOMAIN z.rest : z.rest[j] = s
        BY <1>6, <2>1 DEF Subs!Connected
    <2> QED
        BY <1>1, <1>6, <2>1, <2>2 DEF Owed, ToCome
<1>10. CalmWalk'
    BY <1>6, <1>7, <1>9 DEF CalmWalk
<1> QED
    BY <1>8, <1>10 DEF SubsInv

\* The next session, its unstamped message first; or there is none left.
LEMMA SessionStep == ASSUME SubsInv, Subs!Session PROVE SubsInv'
<1>1. UNCHANGED <<s1, s2, s3>> /\ s4.at = "session"
    BY DEF Subs!Session
<1>2. PICK y \in FanOuts : y = s4 /\ y.at = "session" /\ y.rest \in Seq(Peers)
    BY <1>1 DEF SubsInv, FanOutTypes, FanOuts
<1>3. CASE y.rest = <<>>
    <2>1. PICK z : z = [y EXCEPT !.at = "told"]
        OBVIOUS
    <2>2. s4' = z /\ s6' = s6
        BY <1>2, <1>3, <2>1 DEF Subs!Session
    <2>3. z \in FanOuts /\ z.at = "told" /\ z.rest = <<>> /\ z.due = y.due /\ z.calm = y.calm
        BY <1>3, <2>1 DEF FanOuts
    <2>4. FanOutTypes'
        BY <1>1, <2>2, <2>3 DEF SubsInv, FanOutTypes
    <2>5. ASSUME CalmWalk PROVE CalmWalk'
        <3>1. ASSUME NEW s \in Peers, NEW id \in Ids, <<s, id>> \in z.due
              PROVE  Stands(s2', s3', s, id) /\ Owed(z, s2', s6', s, id)
            <4>1. Stands(s2, s3, s, id) /\ Owed(y, s2, s6, s, id)
                BY <1>2, <2>3, <2>5, <3>1 DEF CalmWalk
            <4>2. DOMAIN y.rest = {}
                BY <1>3
            <4>3. <<s, id>> \in s6
                BY <4>1, <4>2 DEF Owed
            <4> QED
                BY <1>1, <2>2, <4>1, <4>3 DEF Owed
        <3> QED
            BY <2>2, <2>3, <3>1 DEF CalmWalk
    <2> QED
        BY <1>2, <2>2, <2>3, <2>4, <2>5 DEF SubsInv
<1>4. CASE y.rest # <<>>
    <2>1. PICK h \in Peers : h = Head(y.rest) /\ h = y.rest[1] /\ 1 \in DOMAIN y.rest
        BY <1>2, <1>4
    <2>2. PICK z : z = [y EXCEPT !.at = "plain"]
        OBVIOUS
    <2>3. s4' = z /\ s6' = IF h \in s3 THEN s6 \cup {<<h, Subs!Hole>>} ELSE s6
        BY <1>2, <1>4, <2>1, <2>2 DEF Subs!Session
    <2>4. z \in FanOuts /\ z.at = "plain" /\ z.rest = y.rest /\ z.due = y.due /\ z.calm = y.calm
        BY <2>2 DEF FanOuts
    <2>5. s6' \in SUBSET Pairs
        BY <2>3 DEF SubsInv, FanOutTypes, Pairs, Ids
    <2>6. FanOutTypes'
        BY <1>1, <1>4, <2>3, <2>4, <2>5 DEF SubsInv, FanOutTypes
    <2>7. ASSUME CalmWalk PROVE CalmWalk'
        <3>1. ASSUME NEW s \in Peers, NEW id \in Ids, <<s, id>> \in z.due
              PROVE  Stands(s2', s3', s, id) /\ Owed(z, s2', s6', s, id)
            <4>1. Stands(s2, s3, s, id) /\ Owed(y, s2, s6, s, id)
                BY <1>2, <2>4, <2>7, <3>1 DEF CalmWalk
            <4>2. Stands(s2', s3', s, id)
                BY <1>1, <4>1
            <4>3. CASE <<s, id>> \in s6
                BY <2>3, <4>2, <4>3 DEF Owed
            <4>4. CASE <<s, id>> \notin s6
                <5>1. PICK j \in DOMAIN y.rest : y.rest[j] = s
                    BY <4>1, <4>4 DEF Owed
                <5>2. CASE j = 1 /\ id = Subs!Hole
                    <6>1. s = h /\ s \in s3
                        BY <2>1, <4>1, <5>1, <5>2 DEF Stands
                    <6> QED
                        BY <2>3, <4>2, <5>2, <6>1 DEF Owed
                <5>3. CASE ~(j = 1 /\ id = Subs!Hole)
                    BY <2>4, <4>2, <5>1, <5>3 DEF Owed, ToCome
                <5> QED
                    BY <5>2, <5>3
            <4> QED
                BY <4>3, <4>4
        <3> QED
            BY <2>3, <2>4, <3>1 DEF CalmWalk
    <2> QED
        BY <1>2, <2>3, <2>4, <2>6, <2>7 DEF SubsInv
<1> QED
    BY <1>3, <1>4

\* The session's streams are asked for.
LEMMA IterateStep == ASSUME SubsInv, Subs!Iterate PROVE SubsInv'
<1>1. UNCHANGED <<s1, s2, s3, s6>> /\ s4.at = "plain"
    BY DEF Subs!Iterate
<1>2. PICK y \in FanOuts : y = s4 /\ y.at = "plain" /\ y.rest \in Seq(Peers) /\ y.rest # <<>>
    BY <1>1 DEF SubsInv, FanOutTypes, FanOuts
<1>3. Head(y.rest) \in Peers
    BY <1>2
<1>4. PICK n \in Nat : n = Subs!Size(Head(y.rest))
    BY <1>3, SizeIsNat DEF SubsInv
<1>5. PICK z : z = [y EXCEPT !.at = "streams", !.pos = 0, !.size = n]
    OBVIOUS
<1>6. s4' = z
    BY <1>2, <1>4, <1>5 DEF Subs!Iterate
<1>7. /\ z \in FanOuts /\ z.at = "streams" /\ z.rest = y.rest /\ z.pos = 0 /\ z.size = n
      /\ z.due = y.due /\ z.calm = y.calm
    BY <1>5 DEF FanOuts
<1>8. FanOutTypes'
    BY <1>1, <1>2, <1>6, <1>7 DEF SubsInv, FanOutTypes
<1>9. ASSUME CalmWalk PROVE CalmWalk'
    <2>1. ASSUME NEW s \in Peers, NEW id \in Ids, <<s, id>> \in z.due
          PROVE  Stands(s2', s3', s, id) /\ Owed(z, s2', s6', s, id)
        <3>1. Stands(s2, s3, s, id) /\ Owed(y, s2, s6, s, id)
            BY <1>2, <1>7, <1>9, <2>1 DEF CalmWalk
        <3>2. s2[s] \in Seq(Ids)
            BY DEF SubsInv, FanOutTypes
        <3>3. \A i \in DOMAIN s2[s] : i > 0
            BY <3>2
        <3>4. ToCome(y, s2, s, id) => ToCome(z, s2, s, id)
            BY <1>2, <1>7, <3>1, <3>3 DEF ToCome, Stands
        <3> QED
            BY <1>1, <1>7, <3>1, <3>4 DEF Owed
    <2>2. Subs!Size(Head(z.rest))' = n
        BY <1>1, <1>4, <1>7 DEF Subs!Size
    <2>3. (s4.at = "streams" => s4.size = Subs!Size(Head(s4.rest)))'
        BY <1>1, <1>4, <1>6, <1>7 DEF Subs!Size
    <2> QED
        BY <1>6, <1>7, <2>1, <2>3 DEF CalmWalk
<1> QED
    BY <1>2, <1>6, <1>7, <1>8, <1>9 DEF SubsInv

\* The streams of the session one after the other, then the next session.
LEMMA StreamTurn == ASSUME SubsInv, Subs!StreamStep PROVE SubsInv'
<1>1. UNCHANGED <<s1, s2, s3>> /\ s4.at = "streams"
    BY DEF Subs!StreamStep
<1>2. PICK y \in FanOuts : y = s4 /\ y.at = "streams" /\ y.rest \in Seq(Peers) /\ y.rest # <<>>
    BY <1>1 DEF SubsInv, FanOutTypes, FanOuts
<1>3. PICK h \in Peers : h = Head(y.rest) /\ h = y.rest[1] /\ 1 \in DOMAIN y.rest
    BY <1>2
<1>4. s2[h] \in Seq(Ids) /\ y.pos \in Nat
    BY DEF SubsInv, FanOutTypes, FanOuts
<1>5. s4.calm /\ CalmWalk => ~Subs!outgrown(h)
    BY <1>1, <1>2, <1>3 DEF CalmWalk, Subs!outgrown
<1>6. CASE Subs!outgrown(h)
    <2>1. PICK z : z = [y EXCEPT !.at = "failed"]
        OBVIOUS
    <2>2. s4' = z /\ s6' = s6
        BY <1>2, <1>3, <1>6, <2>1 DEF Subs!StreamStep
    <2>3. z \in FanOuts /\ z.at = "failed" /\ z.calm = y.calm
        BY <2>1 DEF FanOuts
    <2>4. FanOutTypes'
        BY <1>1, <2>2, <2>3 DEF SubsInv, FanOutTypes
    <2> QED
        BY <1>2, <1>5, <1>6, <2>2, <2>3, <2>4 DEF SubsInv
<1>7. CASE ~Subs!outgrown(h) /\ Subs!ahead(h) = {}
    <2>1. PICK r \in Seq(Peers) : /\ r = Tail(y.rest) /\ Len(r) = Len(y.rest) - 1
                                  /\ \A i \in 1 .. Len(r) : r[i] = y.rest[i + 1]
        <3>1. /\ Tail(y.rest) \in Seq(Peers) /\ Len(Tail(y.rest)) = Len(y.rest) - 1
              /\ \A i \in 1 .. Len(Tail(y.rest)) : Tail(y.rest)[i] = y.rest[i + 1]
            BY <1>2, HeadTailProperties
        <3> QED
            BY <3>1, Zenon
    <2>2. PICK z : z = [y EXCEPT !.at = "session", !.rest = r]
        OBVIOUS
    <2>3. s4' = z /\ s6' = s6
        BY <1>2, <1>3, <1>7, <2>1, <2>2 DEF Subs!StreamStep
    <2>4. z \in FanOuts /\ z.at = "session" /\ z.rest = r /\ z.due = y.due /\ z.calm = y.calm
        BY <2>2 DEF FanOuts
    <2>5. FanOutTypes'
        BY <1>1, <2>3, <2>4 DEF SubsInv, FanOutTypes
    <2>6. ASSUME CalmWalk PROVE CalmWalk'
        <3>1. ASSUME NEW s \in Peers, NEW id \in Ids, <<s, id>> \in z.due
              PROVE  Stands(s2', s3', s, id) /\ Owed(z, s2', s6', s, id)
            <4>1. Stands(s2, s3, s, id) /\ Owed(y, s2, s6, s, id)
                BY <1>2, <2>4, <2>6, <3>1 DEF CalmWalk
            <4>2. Stands(s2', s3', s, id)
                BY <1>1, <4>1
            <4>3. CASE <<s, id>> \in s6
                BY <2>3, <4>2, <4>3 DEF Owed
            <4>4. CASE <<s, id>> \notin s6
                <5>1. PICK j \in DOMAIN y.rest : y.rest[j] = s /\ (j = 1 => ToCome(y, s2, s, id))
                    BY <4>1, <4>4 DEF Owed
                <5>2. j # 1
                    <6>1. SUFFICES ASSUME j = 1 PROVE FALSE
                        OBVIOUS
                    <6>2. ToCome(y, s2, s, id) /\ s = h
                        BY <1>3, <5>1, <6>1
                    <6>3. PICK i \in DOMAIN s2[h] : i > y.pos /\ s2[h][i] # Subs!Hole
                        BY <1>2, <6>2 DEF ToCome
                    <6>4. i \in Subs!ahead(h)
                        BY <1>2, <6>3 DEF Subs!ahead
                    <6> QED
                        BY <1>7, <6>4
                <5>3. j - 1 \in DOMAIN r /\ r[j - 1] = s
                    <6>1. DOMAIN y.rest = 1 .. Len(y.rest) /\ DOMAIN r = 1 .. Len(r) /\ Len(y.rest) \in Nat
                        BY <1>2, <2>1, LenProperties
                    <6>2. j - 1 \in 1 .. Len(r) /\ j - 1 + 1 = j
                        BY <2>1, <5>1, <5>2, <6>1
                    <6> QED
                        BY <2>1, <5>1, <6>1, <6>2
                <5>4. ToCome(z, s2', s, id)
                    BY <2>4 DEF ToCome
                <5> QED
                    BY <2>4, <4>2, <5>3, <5>4 DEF Owed
            <4> QED
                BY <4>3, <4>4
        <3> QED
            BY <2>3, <2>4, <3>1 DEF CalmWalk
    <2> QED
        BY <1>2, <2>3, <2>4, <2>5, <2>6 DEF SubsInv
<1>8. CASE ~Subs!outgrown(h) /\ Subs!ahead(h) # {}
    <2>1. Subs!ahead(h) \subseteq Nat
        BY <1>4 DEF Subs!ahead
    <2>2. PICK i : i = CHOOSE j \in Subs!ahead(h) : \A k \in Subs!ahead(h) : j <= k
        OBVIOUS
    <2>3. i \in Subs!ahead(h) /\ \A k \in Subs!ahead(h) : i <= k
        BY <1>8, <2>1, <2>2, LeastOf
    <2>4. i \in DOMAIN s2[h] /\ i > y.pos /\ s2[h][i] # Subs!Hole /\ i \in Nat
        BY <1>2, <2>1, <2>3 DEF Subs!ahead
    <2>5. PICK d \in Ids : d = s2[h][i]
        BY <1>4, <2>4, LenProperties, ElementOfSeq
    <2>6. PICK z : z = [y EXCEPT !.pos = i]
        OBVIOUS
    <2>7. s4' = z /\ s6' = s6 \cup {<<h, d>>}
        BY <1>2, <1>3, <1>8, <2>2, <2>5, <2>6 DEF Subs!StreamStep
    <2>8. /\ z \in FanOuts /\ z.at = "streams" /\ z.rest = y.rest /\ z.due = y.due
          /\ z.calm = y.calm /\ z.pos = i /\ z.size = y.size
        BY <1>2, <2>4, <2>6 DEF FanOuts
    <2>9. s6' \in SUBSET Pairs
        BY <2>5, <2>7 DEF SubsInv, FanOutTypes, Pairs
    <2>10. FanOutTypes'
        BY <1>1, <1>2, <2>7, <2>8, <2>9 DEF SubsInv, FanOutTypes
    <2>11. ASSUME CalmWalk PROVE CalmWalk'
        <3>1. ASSUME NEW s \in Peers, NEW id \in Ids, <<s, id>> \in z.due
              PROVE  Stands(s2', s3', s, id) /\ Owed(z, s2', s6', s, id)
            <4>1. Stands(s2, s3, s, id) /\ Owed(y, s2, s6, s, id)
                BY <1>2, <2>8, <2>11, <3>1 DEF CalmWalk
            <4>2. Stands(s2', s3', s, id)
                BY <1>1, <4>1
            <4>3. CASE <<s, id>> \in s6
                BY <2>7, <4>2, <4>3 DEF Owed
            <4>4. CASE <<s, id>> \notin s6
                <5>1. PICK j \in DOMAIN y.rest : y.rest[j] = s /\ (j = 1 => ToCome(y, s2, s, id))
                    BY <4>1, <4>4 DEF Owed
                <5>2. CASE j # 1
                    BY <2>8, <4>2, <5>1, <5>2 DEF Owed
                <5>3. CASE j = 1
                    <6>1. ToCome(y, s2, s, id) /\ s = h
                        BY <1>3, <5>1, <5>3
                    <6>2. PICK k \in DOMAIN s2[h] : k > y.pos /\ s2[h][k] = id /\ id # Subs!Hole
                        BY <1>2, <6>1 DEF ToCome
                    <6>3. k \in Subs!ahead(h)
                        BY <1>2, <6>2 DEF Subs!ahead
                    <6>4. i <= k /\ k \in Nat
                        BY <2>1, <2>3, <6>3
                    <6>5. CASE k = i
                        <7>1. <<s, id>> \in s6'
                            BY <2>5, <2>7, <6>1, <6>2, <6>5
                        <7> QED
                            BY <4>2, <7>1 DEF Owed
                    <6>6. CASE k # i
                        <7>1. k > i
                            BY <2>4, <6>4, <6>6
                        <7>2. ToCome(z, s2', s, id)
                            BY <1>1, <2>8, <6>1, <6>2, <7>1 DEF ToCome
                        <7>3. j \in DOMAIN z.rest /\ z.rest[j] = s
                            BY <2>8, <5>1
                        <7> QED
                            BY <4>2, <7>2, <7>3 DEF Owed
                    <6> QED
                        BY <6>5, <6>6
                <5> QED
                    BY <5>2, <5>3
            <4> QED
                BY <4>3, <4>4
        <3>2. (s4.at = "streams" => s4.size = Subs!Size(Head(s4.rest)))'
            BY <1>1, <1>2, <2>7, <2>8, <2>11 DEF CalmWalk, Subs!Size
        <3> QED
            BY <2>7, <2>8, <3>1, <3>2 DEF CalmWalk
    <2> QED
        BY <1>2, <2>7, <2>8, <2>10, <2>11 DEF SubsInv
<1> QED
    BY <1>6, <1>7, <1>8

\* The fan-out is over.
LEMMA DoneStep == ASSUME SubsInv, Subs!Done PROVE SubsInv'
<1>1. UNCHANGED <<s1, s2, s3>> /\ s4' = Subs!Idle /\ s6' = {}
    BY DEF Subs!Done
<1>2. <<>> \in Seq(Peers)
    OBVIOUS
<1>3. Subs!Idle \in FanOuts
    BY <1>2 DEF Subs!Idle, FanOuts
<1>4. FanOutTypes'
    BY <1>1, <1>3 DEF SubsInv, FanOutTypes, Subs!Idle
<1>5. CalmWalk'
    BY <1>1 DEF CalmWalk, Subs!Idle
<1> QED
    BY <1>4, <1>5 DEF SubsInv

\* Every step of the registry and of a fan-out keeps the invariant.
LEMMA SubsStep == SubsInv /\ Subs!Next => SubsInv'
BY RegisterStep, UnregisterStep, ListenStep, CloseStep, SubscribeStep, NotifyStep, SessionStep,
   IterateStep, StreamTurn, DoneStep DEF Subs!Next

\* Nobody is connected at first.
LEMMA SubsInit == Subs!Init => SubsInv
<1>1. SUFFICES ASSUME Subs!Init PROVE SubsInv
    OBVIOUS
<1>2. <<>> \in Seq(Peers) /\ <<>> \in Seq(Ids)
    OBVIOUS
<1>3. Subs!Idle \in FanOuts
    BY <1>2 DEF Subs!Idle, FanOuts
<1>4. FanOutTypes
    BY <1>1, <1>2, <1>3 DEF Subs!Init, FanOutTypes, Subs!Idle
<1>5. CalmWalk
    BY <1>1 DEF Subs!Init, CalmWalk, Subs!Idle
<1> QED
    BY <1>4, <1>5 DEF SubsInv

\* The invariant gives the reach of a fan-out nothing disturbs.
LEMMA CalmReachesAll == SubsInv => Subs!CalmFanOutReachesAll
<1>1. SUFFICES ASSUME SubsInv, s4.calm
               PROVE  s4.at # "failed" /\ (s4.at = "told" => s4.due \subseteq s6)
    BY DEF Subs!CalmFanOutReachesAll
<1>2. CalmWalk /\ FanOutTypes
    BY <1>1 DEF SubsInv
<1>3. ASSUME s4.at = "told", NEW p \in s4.due PROVE p \in s6
    <2>1. PICK s \in Peers, id \in Ids : p = <<s, id>>
        BY <1>2 DEF FanOutTypes, FanOuts, Pairs
    <2>2. s4.rest = <<>> /\ Owed(s4, s2, s6, s, id)
        BY <1>2, <1>3, <2>1 DEF CalmWalk
    <2>3. DOMAIN s4.rest = {}
        BY <2>2
    <2> QED
        BY <2>1, <2>2, <2>3 DEF Owed
<1> QED
    BY <1>2, <1>3 DEF CalmWalk

-----------------------------------------------------------------------------
(* Together: a behaviour is one of one service.                             *)

services == <<which, s1, s2, s3, s4, s5, s6, s7, s8, s9, s10, s11>>

ServicesInv ==
    /\ which = "redis" => RedisInv
    /\ which = "supervisor" => SupInv
    /\ which = "reloader" => LoadInv
    /\ which = "mcp stdio" => StdioInv
    /\ which = "test clients" => ClientsInv
    /\ which = "live server" => LiveInv
    /\ which = "signals" => SignalInv
    /\ which = "cache" => CacheInv
    /\ which = "events" => StreamInv
    /\ which = "subscriptions" => SubsInv

\* The service a behaviour is about stays the same, and takes the steps.
LEMMA OneService ==
    ASSUME Next
    PROVE  /\ which' = which
           /\ which = "redis" => Redis!Next
           /\ which = "supervisor" => Sup!Next
           /\ which = "reloader" => Load!Next
           /\ which = "mcp stdio" => Stdio!Next
           /\ which = "test clients" => Test!Next
           /\ which = "live server" => Live!Next
           /\ which = "signals" => Sig!Next
           /\ which = "cache" => Cache!Next
           /\ which = "events" => Sse!Next
           /\ which = "subscriptions" => Subs!Next
BY DEF Next

\* Every service begins in its invariant.
LEMMA ServicesInit == Init => ServicesInv
<1>1. SUFFICES ASSUME Init PROVE ServicesInv
    OBVIOUS
<1>2. /\ which = "redis" => Redis!Init
      /\ which = "supervisor" => Sup!Init
      /\ which = "reloader" => Load!Init
      /\ which = "mcp stdio" => Stdio!Init
      /\ which = "test clients" => Test!Init
      /\ which = "live server" => Live!Init
      /\ which = "signals" => Sig!Init
      /\ which = "cache" => Cache!Init
      /\ which = "events" => Sse!Init
      /\ which = "subscriptions" => Subs!Init
    BY <1>1 DEF Init
<1> QED
    BY <1>2, RedisInit, SupInit, LoadInit, StdioInit, ClientsInit, LiveInit, SignalInit, CacheInit,
       StreamInit, SubsInit DEF ServicesInv

\* Nothing moves, and no invariant minds.
LEMMA ServicesStay ==
    ASSUME ServicesInv, UNCHANGED services
    PROVE  ServicesInv'
<1>1. RedisInv => RedisInv'
    BY DEF services, RedisInv, Redis!TypeOK, Redis!ReadsStandFast
<1>2. SupInv => SupInv'
    BY DEF services, SupInv, SupTypes, Sup!InTurn, Sup!CountedInWindow, Sup!RestartsBounded, Sup!Burst
<1>3. LoadInv => LoadInv'
    BY DEF services, LoadInv, Load!TypeOK, Load!LastAlive, Load!Alive
<1>4. StdioInv => StdioInv'
    BY OrderStays, FramesStay DEF services, StdioInv
<1>5. ClientsInv => ClientsInv'
    BY DEF services, ClientsInv, Test!TypeOK, Test!OldestHoldsLock, Test!PollsAreTrue
<1>6. LiveInv => LiveInv'
    BY DEF services, LiveInv, Live!TypeOK, Live!Settled, Live!Live
<1>7. SignalInv => SignalInv'
    <2>1. SignalTypes => SignalTypes'
        BY DEF services, SignalTypes
    <2>2. OutcomesInv => OutcomesInv'
        BY ListsChange DEF services
    <2>3. QuietWalk => QuietWalk'
        <3>1. UNCHANGED <<s1, s2, s3, s4, s6>>
            BY DEF services
        <3>2. /\ Sig!IsInjective(s1)' = Sig!IsInjective(s1) /\ Sig!Range(s1)' = Sig!Range(s1)
              /\ Before(s1, s3.at)' = Before(s1, s3.at)
              /\ Sig!Range(s3.live)' = Sig!Range(s3.live) /\ Sig!Range(s3.called)' = Sig!Range(s3.called)
              /\ Sig!IsInjective(s3.live)' = Sig!IsInjective(s3.live)
              /\ Sig!IsInjective(s3.called)' = Sig!IsInjective(s3.called)
              /\ \A x : Sig!_matches(x, s3.sender)' = Sig!_matches(x, s3.sender)
            BY <3>1 DEF Sig!Range, Sig!IsInjective, Sig!_matches, Before
        <3> QED
            BY <3>1, <3>2 DEF QuietWalk
    <2>4. s5' = s5
        BY DEF services
    <2> QED
        BY <2>1, <2>2, <2>3, <2>4 DEF SignalInv
<1>8. CacheInv => CacheInv'
    BY DEF services, CacheInv, KeysApart
<1>9. StreamInv => StreamInv'
    <2>1. StreamTypes => StreamTypes'
        BY DEF services, StreamTypes
    <2>2. UNCHANGED <<s1, s3, s6>> /\ \A n : SentUpTo(n) => SentUpTo(n)'
        BY DEF services, SentUpTo, Sse!Events
    <2> QED
        BY <2>1, <2>2 DEF StreamInv
<1>10. SubsInv => SubsInv'
    <2>1. FanOutTypes => FanOutTypes'
        BY DEF services, FanOutTypes
    <2>2. CalmWalk => CalmWalk'
        BY DEF services, CalmWalk, Subs!Size
    <2>3. s4' = s4
        BY DEF services
    <2> QED
        BY <2>1, <2>2, <2>3 DEF SubsInv
<1>11. which' = which
    BY DEF services
<1> QED
    BY <1>1, <1>2, <1>3, <1>4, <1>5, <1>6, <1>7, <1>8, <1>9, <1>10, <1>11 DEF ServicesInv

\* Every step keeps the invariants.
LEMMA ServicesStep == ServicesInv /\ [Next]_services => ServicesInv'
<1>1. SUFFICES ASSUME ServicesInv, Next PROVE ServicesInv'
    BY ServicesStay
<1>2. /\ which = "redis" => RedisInv'
      /\ which = "supervisor" => SupInv'
      /\ which = "reloader" => LoadInv'
      /\ which = "mcp stdio" => StdioInv'
      /\ which = "test clients" => ClientsInv'
      /\ which = "live server" => LiveInv'
      /\ which = "signals" => SignalInv'
      /\ which = "cache" => CacheInv'
      /\ which = "events" => StreamInv'
      /\ which = "subscriptions" => SubsInv'
    <2>1. which = "redis" => RedisInv'
        BY <1>1, OneService, RedisStep DEF ServicesInv
    <2>2. which = "supervisor" => SupInv'
        BY <1>1, OneService, SupStep DEF ServicesInv
    <2>3. which = "reloader" => LoadInv'
        BY <1>1, OneService, LoadStep DEF ServicesInv
    <2>4. which = "mcp stdio" => StdioInv'
        BY <1>1, OneService, StdioStep DEF ServicesInv
    <2>5. which = "test clients" => ClientsInv'
        BY <1>1, OneService, ClientsStep DEF ServicesInv
    <2>6. which = "live server" => LiveInv'
        BY <1>1, OneService, LiveStep DEF ServicesInv
    <2>7. which = "signals" => SignalInv'
        BY <1>1, OneService, SignalStep DEF ServicesInv
    <2>8. which = "cache" => CacheInv'
        BY <1>1, OneService, CacheStep DEF ServicesInv
    <2>9. which = "events" => StreamInv'
        BY <1>1, OneService, StreamStep DEF ServicesInv
    <2>10. which = "subscriptions" => SubsInv'
        BY <1>1, OneService, SubsStep DEF ServicesInv
    <2> QED
        BY <2>1, <2>2, <2>3, <2>4, <2>5, <2>6, <2>7, <2>8, <2>9, <2>10
<1> QED
    BY <1>1, <1>2, OneService DEF ServicesInv

\* The invariants of the services hold.
THEOREM ServicesInvHolds == Spec => []ServicesInv
<1>1. Init => ServicesInv
    BY ServicesInit
<1>2. ServicesInv /\ [Next]_services => ServicesInv'
    BY ServicesStep
<1> QED
    BY <1>1, <1>2, PTL DEF Spec, services

\* The processes that share a counter in Redis admit no more than its budget
\* together, whatever order their scripts and watched writes come in, while
\* none has spent its retries (redis.py, RedisStore.incr).
THEOREM BudgetIsShared == Spec => []SharedBudgetHolds
<1>1. ServicesInv => SharedBudgetHolds
    <2>1. SUFFICES ASSUME RedisInv PROVE Redis!SharedBudgetHolds
        BY DEF ServicesInv, SharedBudgetHolds
    <2> QED
        BY <2>1 DEF RedisInv, Redis!ReadsStandFast, Redis!SharedBudgetHolds
<1> QED
    BY <1>1, ServicesInvHolds, PTL

\* The supervisor gives a task up only when its last max_restarts + 1 runs
\* ended within less than one window, and no window sees more than twice the
\* budget and one restarts (app/background.py).
THEOREM BreakerHolds == Spec => []TripsOnTightLoopsOnly
<1>1. ServicesInv => TripsOnTightLoopsOnly
    BY BreakerIsSound DEF ServicesInv, TripsOnTightLoopsOnly
<1> QED
    BY <1>1, ServicesInvHolds, PTL

\* Tool calls over stdio run one after another in the order they were read,
\* a tool sees the request context of its own call, also after the calls it
\* made, and a call that was not cancelled has torn down what it opened
\* (transports/stdio.py, _invocation.py).
THEOREM StdioCallsAreSound == Spec => []CallsKeepTheirPlace
<1>1. ServicesInv => CallsKeepTheirPlace
    BY CallsAreSound DEF ServicesInv, CallsKeepTheirPlace
<1> QED
    BY <1>1, ServicesInvHolds, PTL

\* Test clients closed in reverse order give the setup lock back, a client
\* hears of nobody leaving before its answer, and a live server that was left
\* keeps no connection and no listener (testclient.py, liveserver.py).
THEOREM HarnessIsClean == Spec => []HarnessLeavesNoTrace
<1>1. ServicesInv => HarnessLeavesNoTrace
    BY ClientsLeaveNoTrace, LiveIsComplete DEF ServicesInv, HarnessLeavesNoTrace
<1> QED
    BY <1>1, ServicesInvHolds, PTL

\* A signal sent while nobody disconnects reaches, once, every receiver that
\* was connected all through it, runs every coroutine it made, and keeps who
\* was not collected; an event stream sends each event once, in order, and
\* holds what its pings cut off; a notification under which no stream is
\* opened or closed reaches every subscription (signals.py, sse.py,
\* contrib/mcp/subscriptions.py).
THEOREM DeliveriesArrive == Spec => []DeliveriesReachAll
<1>1. ServicesInv => DeliveriesReachAll
    BY QuietSendsReachAll, StreamIsWhole, CalmReachesAll DEF ServicesInv, DeliveriesReachAll
<1> QED
    BY <1>1, ServicesInvHolds, PTL

\* The cache never holds more than max_entries entries, holds a key once and
\* hands out nothing for longer than its ttl, in whatever order misses are
\* computed and keys deleted (cache.py).
THEOREM CacheStaysInBounds == Spec => []CacheKeepsItsBounds
<1>1. ServicesInv => CacheKeepsItsBounds
    BY CacheIsBounded DEF ServicesInv, CacheKeepsItsBounds
<1> QED
    BY <1>1, ServicesInvHolds, PTL

\* While every edit has a modification time of its own and a child imports
\* its sources after the first walk over them, a poll that found nothing new
\* since the last edit means that the one child that serves runs the files as
\* they are, but for one that came and went between two polls (reloader.py).
THEOREM ServerRunsItsFiles ==
    ASSUME SlowBoot, MtimeSteps = {1}
    PROVE  Spec => []ServesWhatIsThere
<1> DEFINE Inv == ServicesInv /\ (which = "reloader" => TimedInv)
<1>1. Init => Inv
    <2>1. ASSUME Init, which = "reloader" PROVE TimedInv
        BY <2>1, TimedInit DEF Init
    <2> QED
        BY <2>1, ServicesInit
<1>2. Inv /\ [Next]_services => Inv'
    <2>1. SUFFICES ASSUME Inv, [Next]_services, ServicesInv', which' = "reloader" PROVE TimedInv'
        BY ServicesStep
    <2>2. CASE Next
        <3>1. which = "reloader" /\ Load!Next
            BY <2>1, <2>2, OneService
        <3>2. LoadInv /\ TimedInv /\ LoadInv'
            BY <2>1, <3>1 DEF ServicesInv
        <3> QED
            BY <3>1, <3>2, TimedStep
    <2>3. CASE UNCHANGED services
        <3>1. TimedInv
            BY <2>1, <2>3 DEF services
        <3> QED
            BY <2>3, <3>1 DEF services, TimedInv, Load!TimesAreVersions, Load!WalkStands, Load!ImportsFollow
    <2> QED
        BY <2>1, <2>2, <2>3
<1>3. Inv => ServesWhatIsThere
    BY OneServer, PollIsEnough DEF ServicesInv, ServesWhatIsThere
<1> QED
    BY <1>1, <1>2, <1>3, PTL DEF Spec, services
=============================================================================
