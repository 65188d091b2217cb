------------------------- MODULE WebSessionsProofs -------------------------
(***************************************************************************)
(* Sessions, for any number of concurrent calls, redirects and chunks and  *)
(* any lifetimes: a revoked id stays revoked, and the jar never holds a    *)
(* mixture of two sessions' cookies.                                       *)
(***************************************************************************)
EXTENDS WebSessions, SequenceTheorems, TLAPS

-----------------------------------------------------------------------------
(* Types.                                                                   *)

Data == [user : BOOLEAN, size : Nat, perm : BOOLEAN]

\* Who signed a cookie: a call at one of its hops, or the test client.
Tags == Seq(Calls \cup Nat \cup {"test"})

Piece == [by : Tags, at : Nat, data : Data, part : Nat]

\* What a cookie holds: the pieces of a signed value, or a session id.
Value(kind) == IF kind = "cookie" THEN Seq(Piece) ELSE Seq(Nat)

Cookies(kind) == [Names -> Value(kind)]

Places == {"idle", "sent", "handling", "deleting", "writing", "replacing", "touching",
           "overwriting", "answered", "done", "raised"}

CallOf(kind) ==
    [by : Calls, pc : Places, hop : Nat, cookies : Cookies(kind), sid : Nat, data : Data,
     payload : Data, new : BOOLEAN, status : {"ok", "error", "redirect"},
     changes : [Names -> SUBSET Value(kind)]]

Middleware ==
    [kind : {"cookie", "server"}, chunked : BOOLEAN, renew : BOOLEAN, atomic : BOOLEAN]

\* The type of the state.
TypeOK ==
    /\ mw \in Middleware
    /\ now \in 0 .. MaxNow
    /\ minted \in Nat
    /\ DOMAIN entries \subseteq 0 .. minted
    /\ entries \in [DOMAIN entries -> [data : Data, exp : Nat]]
    /\ ended \subseteq 0 .. minted
    /\ anon \subseteq 0 .. minted
    /\ jar \in Cookies(mw.kind)
    /\ call \in [Calls -> CallOf(mw.kind)]
    /\ \A c \in Calls : call[c].sid \in 0 .. minted

-----------------------------------------------------------------------------
(* Signed values.                                                           *)

\* The pieces of one signed value, all of them and in order.
PiecesOf(by, at, data) ==
    [i \in 1 .. data.size |-> [by |-> by, at |-> at, data |-> data, part |-> i]]

\* A signed value, complete, of one answer, signed by time t.
IsWhole(v, t) ==
    \E by \in Tags, at \in 0 .. t, data \in Data :
        data.size > 0 /\ v = PiecesOf(by, at, data)

\* The chunks up to k, taken together.
Chunks(f, k) == [i \in 1 .. k |-> f[i - 1][1]]

\* The chunks are those of one signed value, without a gap, or there are none.
WholeChunks(f, t) ==
    \E k \in 0 .. MaxChunks :
        /\ \A i \in Chunk : f[i] # None <=> i < k
        /\ k > 0 => IsWhole(Chunks(f, k), t)

WholeJar(f, t) == (f[Main] = None \/ IsWhole(f[Main], t)) /\ WholeChunks(f, t)

\* An answer that sets cookies sets all of them.
WholeChange(changes, chunked, t) ==
    \/ changes = NoChanges
    \/ \E f \in Cookies("cookie") :
         /\ WholeJar(f, t)
         /\ \A n \in Names : changes[n] = IF n = Main \/ chunked THEN {f[n]} ELSE {}

\* The jar, and what every call took of it and will set in it, are whole.
CookiesInv ==
    mw.kind = "cookie" =>
         /\ WholeJar(jar, now)
         /\ \A c \in Calls : /\ WholeJar(call[c].cookies, now)
                              /\ WholeChange(call[c].changes, mw.chunked, now)

\* Where the store is called from.
StorePlaces == {"deleting", "writing", "replacing", "touching", "overwriting"}

\* Only the server-side middleware calls the store, and only the base class
\* writes over an entry it has read before.
MayBeAt(m, place) ==
    (place \in StorePlaces => m.kind = "server") /\ (place = "overwriting" => ~m.atomic)

PlacesInv == \A c \in Calls : MayBeAt(mw, call[c].pc)

SessionInv == TypeOK /\ CookiesInv /\ PlacesInv /\ EndedStaysEnded

-----------------------------------------------------------------------------
\* The cookie names are told apart, and the bounds are numbers.
LEMMA NamesAre ==
    /\ Main \in Names /\ Chunk \subseteq Names /\ Main \notin Chunk
    /\ MaxChunks \in Nat \ {0} /\ MaxSize \in Nat \ {0} /\ MaxNow \in Nat
    /\ \A n \in Names : n # Main => n \in Chunk
    /\ \A i \in Chunk : i \in 0 .. (MaxChunks - 1)
BY SessionAssumption DEF Names, Main, Chunk, SessionAssumption

\* A signed value: its pieces in order, all alike but for their place.
LEMMA PiecesAreWhole ==
    ASSUME NEW by \in Tags, NEW at \in Nat, NEW data \in Data, data.size > 0
    PROVE  LET v == PiecesOf(by, at, data)
           IN  /\ v \in Seq(Piece) /\ v # None /\ Len(v) = data.size
               /\ v[1] = [by |-> by, at |-> at, data |-> data, part |-> 1]
               /\ \A i \in 1 .. data.size : v[i] = [v[1] EXCEPT !.part = i] /\ v[i] \in Piece
<1> DEFINE v == PiecesOf(by, at, data)
<1>1. PICK n \in Nat : n = data.size /\ n > 0
    BY DEF Data
<1>2. \A i \in 1 .. n : v[i] = [by |-> by, at |-> at, data |-> data, part |-> i]
    BY <1>1 DEF PiecesOf
<1>3. \A i \in 1 .. n : v[i] \in Piece
    <2>1. TAKE i \in 1 .. n
    <2>2. i \in Nat
        BY <1>1
    <2>3. [by |-> by, at |-> at, data |-> data, part |-> i] \in Piece
        BY <2>2 DEF Piece
    <2> QED
        BY <1>2, <2>3
<1>4. v \in [1 .. n -> Piece]
    BY <1>1, <1>3 DEF PiecesOf
<1>5. v \in Seq(Piece) /\ Len(v) = n
    BY <1>4, SeqDef, LenProperties
<1>6. v # None
    BY <1>5, <1>1, EmptySeq DEF None
<1>7. v[1] = [by |-> by, at |-> at, data |-> data, part |-> 1]
    BY <1>1, <1>2
<1>8. \A i \in 1 .. n : v[i] = [v[1] EXCEPT !.part = i]
    BY <1>2, <1>7
<1> QED
    BY <1>1, <1>3, <1>5, <1>6, <1>7, <1>8

\* What the server reads of a signed value is a session.
LEMMA WholeLoads ==
    ASSUME now \in 0 .. MaxNow, NEW v, IsWhole(v, now)
    PROVE  /\ Loads(v, MaxNow) /\ v # None /\ v \in Seq(Piece) /\ v[1].data \in Data
           /\ decode_cookie(v) \in Data
<1>1. PICK by \in Tags, at \in 0 .. now, data \in Data :
          data.size > 0 /\ v = PiecesOf(by, at, data)
    BY DEF IsWhole
<1>2. now \in Nat /\ MaxNow \in Nat /\ at \in Nat /\ now - at \in 0 .. MaxNow
    BY NamesAre
<1>3. /\ v \in Seq(Piece) /\ v # None /\ Len(v) = data.size
      /\ v[1] = [by |-> by, at |-> at, data |-> data, part |-> 1]
      /\ \A i \in 1 .. data.size : v[i] = [v[1] EXCEPT !.part = i]
    BY <1>1, <1>2, PiecesAreWhole
<1>4. v[1].at = at /\ v[1].data = data
    BY <1>3
<1>5. DOMAIN v = 1 .. data.size
    BY <1>3, LenProperties
<1>6. Loads(v, MaxNow)
    BY <1>2, <1>3, <1>4, <1>5 DEF Loads
<1>7. Empty \in Data
    BY DEF Empty, Data
<1> QED
    BY <1>3, <1>4, <1>6, <1>7 DEF decode_cookie

\* The chunks of cookies without a gap are read up to the last.
LEMMA ChunksAreRead ==
    ASSUME NEW f, WholeChunks(f, now)
    PROVE  reassemble_chunks(f) = None \/ IsWhole(reassemble_chunks(f), now)
<1>1. PICK k \in 0 .. MaxChunks : /\ \A i \in Chunk : f[i] # None <=> i < k
                                  /\ k > 0 => IsWhole(Chunks(f, k), now)
    BY DEF WholeChunks
<1> DEFINE P(r) == (\A i \in Chunk : i < r => f[i] # None) /\ (r = MaxChunks \/ f[r] = None)
<1>2. P(k)
    BY <1>1, NamesAre DEF Chunk
<1>3. \A r \in 0 .. MaxChunks : P(r) => r = k
    BY <1>1, NamesAre DEF Chunk
<1>4. PICK r : r = CHOOSE j \in 0 .. MaxChunks : P(j)
    OBVIOUS
<1>5. r \in 0 .. MaxChunks /\ P(r)
    BY <1>2, <1>4
<1>6. r = k
    BY <1>3, <1>5
<1>7. reassemble_chunks(f) = IF k = 0 THEN None ELSE Chunks(f, k)
    BY <1>4, <1>6 DEF reassemble_chunks, Chunks
<1> QED
    BY <1>1, <1>7

\* What the server reads of whole cookies is nothing or a whole value.
LEMMA JarIsRead ==
    ASSUME now \in 0 .. MaxNow, NEW f, WholeJar(f, now)
    PROVE  CookieValue(f) = None \/ IsWhole(CookieValue(f), now)
BY ChunksAreRead DEF CookieValue, WholeJar

\* No cookie, no session.
LEMMA EmptyDecodes == decode_cookie(None) = Empty
BY DEF decode_cookie, Loads

-----------------------------------------------------------------------------
(* What an answer sets.                                                     *)

\* Deleting every cookie, and writing a signed value whole or in chunks, sets
\* all of them.
LEMMA NoCookiesAreWhole == NoCookies \in Cookies("cookie") /\ \A t : WholeJar(NoCookies, t)
<1>1. None \in Seq(Piece)
    BY EmptySeq DEF None
<1>2. \A n \in Names : NoCookies[n] = None
    BY DEF NoCookies
<1>3. \A t : WholeChunks(NoCookies, t)
    <2>1. \A i \in Chunk : NoCookies[i] # None <=> i < 0
        BY <1>2, NamesAre DEF Chunk
    <2>2. 0 \in 0 .. MaxChunks
        BY NamesAre
    <2> QED
        BY <2>1, <2>2 DEF WholeChunks
<1> QED
    BY <1>1, <1>2, <1>3, NamesAre DEF NoCookies, WholeJar, Cookies, Value

\* A session that ended deletes every cookie it may have been written to.
LEMMA DeletionIsWhole ==
    ASSUME mw.chunked \in BOOLEAN
    PROVE  WholeChange(clear_chunks([NoChanges EXCEPT ![Main] = Gone]), mw.chunked, now)
<1> DEFINE h == clear_chunks([NoChanges EXCEPT ![Main] = Gone])
<1>1. \A n \in Names : h[n] = IF n = Main \/ mw.chunked THEN {NoCookies[n]} ELSE {}
    BY NamesAre DEF clear_chunks, NoChanges, Gone, NoCookies
<1> QED
    BY <1>1, NoCookiesAreWhole DEF WholeChange

\* A value in the whole cookie, all chunks deleted.
LEMMA WholeCookieIsWhole ==
    ASSUME mw.chunked \in BOOLEAN, NEW v, v \in Seq(Piece), IsWhole(v, now)
    PROVE  WholeChange(clear_chunks([NoChanges EXCEPT ![Main] = {v}]), mw.chunked, now)
<1> DEFINE h == clear_chunks([NoChanges EXCEPT ![Main] = {v}])
           f == [NoCookies EXCEPT ![Main] = v]
<1>1. f \in Cookies("cookie") /\ f[Main] = v /\ \A n \in Chunk : f[n] = None
    BY NoCookiesAreWhole, NamesAre DEF NoCookies, Cookies, Value
<1>2. \A n \in Names : h[n] = IF n = Main \/ mw.chunked THEN {f[n]} ELSE {}
    BY <1>1, NamesAre DEF clear_chunks, NoChanges, Gone
<1>3. WholeChunks(f, now)
    <2>1. \A i \in Chunk : f[i] # None <=> i < 0
        BY <1>1, NamesAre DEF Chunk
    <2>2. 0 \in 0 .. MaxChunks
        BY NamesAre
    <2> QED
        BY <2>1, <2>2 DEF WholeChunks
<1>4. WholeJar(f, now)
    BY <1>1, <1>3 DEF WholeJar
<1> HIDE DEF f, h
<1> QED
    BY <1>1, <1>2, <1>4 DEF WholeChange, h

\* A value in chunks, the chunks past the last and the whole cookie deleted.
LEMMA ChunksAreWhole ==
    ASSUME mw.chunked = TRUE, NEW v, v \in Seq(Piece), IsWhole(v, now), Len(v) <= MaxChunks
    PROVE  WholeChange(write_chunks(v), mw.chunked, now)
<1>1. PICK k \in Nat : k = Len(v) /\ DOMAIN v = 1 .. k /\ v = [i \in 1 .. k |-> v[i]]
    BY LenProperties
<1> DEFINE f == [n \in Names |-> IF n \in Chunk /\ n < k THEN <<v[n + 1]>> ELSE None]
<1>2. \A n \in Chunk : n < k => v[n + 1] \in Piece
    BY <1>1, NamesAre, ElementOfSeq
<1>3. \A n \in Chunk : n < k => f[n] = <<v[n + 1]>> /\ f[n] \in Seq(Piece) /\ f[n] # None
    BY <1>2, NamesAre DEF None
<1>4. \A n \in Names : ~(n \in Chunk /\ n < k) => f[n] = None /\ f[n] \in Seq(Piece)
    BY EmptySeq DEF None
<1>5. f \in Cookies("cookie")
    BY <1>3, <1>4 DEF Cookies, Value
<1>6. f[Main] = None
    BY <1>4, NamesAre
<1>7. k \in 0 .. MaxChunks
    BY <1>1, NamesAre
<1>8. \A i \in Chunk : f[i] # None <=> i < k
    BY <1>3, <1>4, NamesAre
<1>9. Chunks(f, k) = v
    <2>1. \A i \in 1 .. k : i - 1 \in Chunk /\ i - 1 < k /\ (i - 1) + 1 = i
        BY <1>7, NamesAre DEF Chunk
    <2>2. \A i \in 1 .. k : f[i - 1] = <<v[i]>>
        BY <1>3, <2>1
    <2> HIDE DEF f
    <2>3. \A i \in 1 .. k : f[i - 1][1] = v[i]
        <3>1. TAKE i \in 1 .. k
        <3>2. PICK y : y = v[i]
            OBVIOUS
        <3>3. f[i - 1] = <<y>>
            BY <2>2, <3>2
        <3> QED
            BY <3>2, <3>3
    <2> QED
        BY <1>1, <2>3 DEF Chunks
<1>10. WholeJar(f, now)
    BY <1>6, <1>7, <1>8, <1>9 DEF WholeJar, WholeChunks
<1>11. \A n \in Names : write_chunks(v)[n] = {f[n]}
    BY <1>1 DEF write_chunks, Gone
<1> HIDE DEF f
<1> QED
    BY <1>5, <1>10, <1>11 DEF WholeChange

\* The cookies that a session is written to.
LEMMA CookieChangesAreWhole ==
    ASSUME mw \in Middleware, now \in Nat, NEW by \in Tags, NEW data \in Data, data.size > 0
    PROVE  WholeChange(CookieChanges(by, data), mw.chunked, now)
<1>1. PICK v : v = Signed(by, data)
    OBVIOUS
<1>2. v = PiecesOf(by, now, data)
    BY <1>1 DEF Signed, PiecesOf
<1>3. IsWhole(v, now) /\ v \in Seq(Piece)
    <2>1. now \in 0 .. now
        OBVIOUS
    <2> QED
        BY <1>2, <2>1, PiecesAreWhole DEF IsWhole
<1>4. mw.chunked \in BOOLEAN
    BY DEF Middleware
<1>5. WholeChange(NoChanges, mw.chunked, now)
    BY DEF WholeChange
<1>6. CASE data.size = 1
    BY <1>1, <1>3, <1>4, <1>6, WholeCookieIsWhole DEF CookieChanges
<1>7. CASE data.size # 1 /\ ~mw.chunked
    BY <1>5, <1>7 DEF CookieChanges
<1>8. CASE data.size # 1 /\ mw.chunked /\ Len(v) <= MaxChunks
    BY <1>1, <1>3, <1>4, <1>8, ChunksAreWhole DEF CookieChanges
<1>9. CASE data.size # 1 /\ mw.chunked /\ ~(Len(v) <= MaxChunks)
    BY <1>1, <1>4, <1>9, DeletionIsWhole DEF CookieChanges
<1> QED
    BY <1>6, <1>7, <1>8, <1>9

\* One answer's cookies over a jar of whole ones leave a jar of whole ones.
LEMMA AppliedIsWhole ==
    ASSUME mw \in Middleware, jar \in Cookies("cookie"), WholeJar(jar, now), NEW h,
           WholeChange(h, mw.chunked, now)
    PROVE  Applied(h) \in Cookies("cookie") /\ WholeJar(Applied(h), now)
<1>1. CASE h = NoChanges
    <2>1. \A n \in Names : Applied(h)[n] = jar[n]
        BY <1>1 DEF Applied, NoChanges
    <2>2. Applied(h) = jar
        BY <2>1 DEF Applied, Cookies
    <2> QED
        BY <2>2
<1>2. ASSUME NEW f \in Cookies("cookie"), WholeJar(f, now),
             \A n \in Names : h[n] = IF n = Main \/ mw.chunked THEN {f[n]} ELSE {}
      PROVE  Applied(h) \in Cookies("cookie") /\ WholeJar(Applied(h), now)
    <2>1. \A n \in Names : h[n] = {} => Applied(h)[n] = jar[n]
        BY DEF Applied
    <2>2. \A n \in Names : h[n] = {f[n]} => Applied(h)[n] = f[n]
        BY DEF Applied
    <2>3. PICK g : g = Applied(h)
        OBVIOUS
    <2>4. g = [n \in Names |-> g[n]]
        BY <2>3 DEF Applied
    <2>5. \A n \in Names : g[n] = IF n = Main \/ mw.chunked THEN f[n] ELSE jar[n]
        BY <1>2, <2>1, <2>2, <2>3
    <2>6. g \in Cookies("cookie")
        BY <2>4, <2>5 DEF Cookies
    <2>7. g[Main] = f[Main]
        BY <2>5, NamesAre
    <2>8. WholeChunks(g, now)
        <3>1. CASE mw.chunked
            <4>1. g = f
                BY <2>4, <2>5, <3>1 DEF Cookies
            <4> QED
                BY <1>2, <4>1 DEF WholeJar
        <3>2. CASE ~mw.chunked
            <4>1. \A n \in Chunk : g[n] = jar[n]
                BY <2>5, <3>2, NamesAre
            <4>2. PICK k \in 0 .. MaxChunks : /\ \A i \in Chunk : jar[i] # None <=> i < k
                                              /\ k > 0 => IsWhole(Chunks(jar, k), now)
                BY DEF WholeJar, WholeChunks
            <4>3. \A i \in 1 .. k : i - 1 \in Chunk
                BY <4>2, NamesAre DEF Chunk
            <4>4. Chunks(g, k) = Chunks(jar, k)
                BY <4>1, <4>3 DEF Chunks
            <4> QED
                BY <4>1, <4>2, <4>4 DEF WholeChunks
        <3> QED
            BY <3>1, <3>2
    <2> QED
        BY <1>2, <2>3, <2>6, <2>7, <2>8 DEF WholeJar
<1> QED
    BY <1>1, <1>2 DEF WholeChange

-----------------------------------------------------------------------------
(* Calls.                                                                   *)

\* A call that has not begun.
LEMMA IdleIs ==
    ASSUME NEW kind, NEW c \in Calls
    PROVE  /\ Idle(c) \in CallOf(kind) /\ Idle(c).pc = "idle" /\ Idle(c).sid = 0
           /\ Idle(c).cookies = NoCookies /\ Idle(c).changes = NoChanges /\ Idle(c).by = c
<1>1. NoCookies \in Cookies(kind)
    <2>1. None \in Value(kind)
        BY EmptySeq DEF None, Value
    <2> QED
        BY <2>1 DEF NoCookies, Cookies
<1>2. NoChanges \in [Names -> SUBSET Value(kind)]
    BY DEF NoChanges
<1>3. Empty \in Data
    BY DEF Empty, Data
<1> QED
    BY <1>1, <1>2, <1>3 DEF Idle, CallOf, Places, NoId

\* One call is replaced.
LEMMA CallReplaced ==
    ASSUME NEW kind, call \in [Calls -> CallOf(kind)], NEW c \in Calls, NEW x \in CallOf(kind),
           call' = [call EXCEPT ![c] = x]
    PROVE  /\ call' \in [Calls -> CallOf(kind)] /\ call'[c] = x
           /\ \A d \in Calls : d # c => call'[d] = call[d]
OBVIOUS

\* The next hop of a redirect, or the end of the call.
LEMMA NextHopIs ==
    ASSUME NEW kind, NEW x \in CallOf(kind), NEW f \in Cookies(kind)
    PROVE  LET y == NextHop(x, f)
           IN  /\ y \in CallOf(kind) /\ y.pc \in {"sent", "done", "raised"} /\ y.sid = 0
               /\ y.changes = NoChanges /\ y.cookies \in {NoCookies, f}
<1>1. x.by \in Calls /\ x.hop \in Nat
    BY DEF CallOf
<1>2. PICK i : i = Idle(x.by)
    OBVIOUS
<1>3. /\ i \in CallOf(kind) /\ i.sid = 0 /\ i.cookies = NoCookies /\ i.changes = NoChanges
    BY <1>1, <1>2, IdleIs
<1>4. CASE x.status # "redirect"
    <2>1. NextHop(x, f) = [i EXCEPT !.pc = "done"]
        BY <1>2, <1>4 DEF NextHop
    <2> QED
        BY <1>3, <2>1 DEF CallOf, Places
<1>5. CASE x.status = "redirect" /\ x.hop < MaxRedirects
    <2>1. x.hop + 1 \in Nat
        BY <1>1
    <2>2. NextHop(x, f) = [i EXCEPT !.pc = "sent", !.hop = x.hop + 1, !.cookies = f]
        BY <1>2, <1>5 DEF NextHop
    <2> QED
        BY <1>3, <2>1, <2>2 DEF CallOf, Places
<1>6. CASE x.status = "redirect" /\ ~(x.hop < MaxRedirects)
    <2>1. NextHop(x, f) = [i EXCEPT !.pc = "raised"]
        BY <1>2, <1>6 DEF NextHop
    <2> QED
        BY <1>3, <2>1 DEF CallOf, Places
<1> QED
    BY <1>4, <1>5, <1>6

\* SetCookie.
LEMMA SetCookieIs ==
    ASSUME NEW kind, NEW x \in CallOf(kind), NEW h \in SUBSET Value(kind)
    PROVE  LET y == SetCookie(x, h)
           IN  /\ y \in CallOf(kind) /\ y.pc = "answered" /\ y.sid = x.sid
               /\ y.cookies = x.cookies
<1>1. [NoChanges EXCEPT ![Main] = h] \in [Names -> SUBSET Value(kind)]
    BY DEF NoChanges
<1> QED
    <2>1. PICK g \in [Names -> SUBSET Value(kind)] : g = [NoChanges EXCEPT ![Main] = h]
        BY <1>1
    <2>3. SetCookie(x, h) = [x EXCEPT !.pc = "answered", !.changes = g]
        BY <2>1 DEF SetCookie
    <2> QED
        BY <2>1, <2>3 DEF CallOf, Places

-----------------------------------------------------------------------------
(* The store.                                                               *)

Entries == [data : Data, exp : Nat]

\* A session lives for a number of seconds.
LEMMA LifetimeIs == ASSUME NEW data \in Data PROVE cookie_lifetime(data) \in Nat
BY SessionAssumption DEF cookie_lifetime, SessionAssumption

\* A store without an id.
LEMMA WithoutIs ==
    ASSUME NEW s, entries \in [DOMAIN entries -> Entries]
    PROVE  /\ DOMAIN Without(s) = DOMAIN entries \ {s}
           /\ Without(s) \in [DOMAIN Without(s) -> Entries]
BY DEF Without

\* A store with an entry written.
LEMMA WriteIs ==
    ASSUME NEW s, entries \in [DOMAIN entries -> Entries], NEW data \in Data, NEW age \in Nat,
           NEW swept, now \in Nat
    PROVE  /\ DOMAIN write(s, data, age, swept) \subseteq DOMAIN entries \cup {s}
           /\ write(s, data, age, swept) \in [DOMAIN write(s, data, age, swept) -> Entries]
<1>1. PICK e \in Entries : e = [data |-> data, exp |-> now + age]
    <2>1. PICK u \in Nat : u = now + age
        OBVIOUS
    <2>2. [data |-> data, exp |-> u] \in Entries
        BY DEF Entries
    <2> QED
        BY <2>1, <2>2
<1>2. PICK st : st = [x \in DOMAIN entries \cup {s} |-> IF x = s THEN e ELSE entries[x]]
    OBVIOUS
<1>3. DOMAIN st = DOMAIN entries \cup {s} /\ st \in [DOMAIN st -> Entries]
    BY <1>2
<1>4. DOMAIN Swept(st) \subseteq DOMAIN st /\ Swept(st) \in [DOMAIN Swept(st) -> Entries]
    BY <1>3 DEF Swept
<1>5. write(s, data, age, swept) = IF swept THEN Swept(st) ELSE st
    BY <1>1, <1>2 DEF write
<1> QED
    BY <1>3, <1>4, <1>5

-----------------------------------------------------------------------------
(* Steps.                                                                   *)

\* A call moves on; what it has taken and set is whole, and the store and the
\* ids are looked after by the step.
LEMMA CallMoves ==
    ASSUME SessionInv, NEW c \in Calls, NEW x \in CallOf(mw.kind), call' = [call EXCEPT ![c] = x],
           x.sid \in 0 .. minted, MayBeAt(mw, x.pc),
           mw.kind = "cookie" =>
             WholeJar(x.cookies, now) /\ WholeChange(x.changes, mw.chunked, now),
           UNCHANGED <<mw, now>>, minted' \in {minted, minted + 1}
    PROVE  /\ call' \in [Calls -> CallOf(mw.kind)]
           /\ \A d \in Calls : call'[d].sid \in 0 .. minted'
           /\ PlacesInv'
           /\ mw.kind = "cookie" => \A d \in Calls : /\ WholeJar(call'[d].cookies, now)
                                                    /\ WholeChange(call'[d].changes, mw.chunked, now)
<1>1. /\ call' \in [Calls -> CallOf(mw.kind)] /\ call'[c] = x
      /\ \A d \in Calls : d # c => call'[d] = call[d]
    BY CallReplaced DEF SessionInv, TypeOK
<1>2. \A d \in Calls : call'[d].sid \in 0 .. minted'
    BY <1>1 DEF SessionInv, TypeOK
<1>3. PlacesInv'
    BY <1>1 DEF SessionInv, PlacesInv
<1>4. mw.kind = "cookie" => \A d \in Calls : /\ WholeJar(call'[d].cookies, now)
                                            /\ WholeChange(call'[d].changes, mw.chunked, now)
    BY <1>1 DEF SessionInv, CookiesInv
<1> QED
    BY <1>1, <1>2, <1>3, <1>4

\* A step of a call that leaves the jar, the store and the ids alone.
LEMMA CallMovesAlone ==
    ASSUME SessionInv, NEW c \in Calls, NEW x \in CallOf(mw.kind), call' = [call EXCEPT ![c] = x],
           x.sid \in 0 .. minted, MayBeAt(mw, x.pc),
           mw.kind = "cookie" =>
             WholeJar(x.cookies, now) /\ WholeChange(x.changes, mw.chunked, now),
           UNCHANGED <<mw, now, entries, minted, ended, anon, jar>>
    PROVE  SessionInv'
<1>1. /\ call' \in [Calls -> CallOf(mw.kind)]
      /\ \A d \in Calls : call'[d].sid \in 0 .. minted'
      /\ PlacesInv'
      /\ mw.kind = "cookie" => \A d \in Calls : /\ WholeJar(call'[d].cookies, now)
                                               /\ WholeChange(call'[d].changes, mw.chunked, now)
    BY CallMoves
<1>2. TypeOK'
    BY <1>1 DEF SessionInv, TypeOK
<1>3. CookiesInv'
    BY <1>1 DEF SessionInv, CookiesInv
<1>4. EndedStaysEnded'
    BY DEF SessionInv, EndedStaysEnded
<1> QED
    BY <1>1, <1>2, <1>3, <1>4 DEF SessionInv

\* The client sends: it takes the whole jar.
LEMMA StepSend == ASSUME SessionInv, NEW c \in Calls, Send(c) PROVE SessionInv'
<1>1. PICK i \in CallOf(mw.kind) : i = Idle(c) /\ i.sid = 0 /\ i.changes = NoChanges
    BY IdleIs
<1>2. jar \in Cookies(mw.kind)
    BY DEF SessionInv, TypeOK
<1>3. PICK x : x = [i EXCEPT !.pc = "sent", !.cookies = jar]
    OBVIOUS
<1>4. /\ x \in CallOf(mw.kind) /\ x.sid = 0 /\ x.changes = NoChanges /\ x.pc = "sent"
      /\ x.cookies = jar
    BY <1>1, <1>2, <1>3 DEF CallOf, Places
<1>5. call' = [call EXCEPT ![c] = x]
    BY <1>1, <1>3 DEF Send
<1>6. mw.kind = "cookie" => WholeJar(x.cookies, now) /\ WholeChange(x.changes, mw.chunked, now)
    BY <1>4 DEF SessionInv, CookiesInv, WholeChange
<1>7. x.sid \in 0 .. minted
    BY <1>4 DEF SessionInv, TypeOK
<1>8. UNCHANGED <<mw, now, entries, minted, ended, anon, jar>>
    BY DEF Send
<1> QED
    BY <1>4, <1>5, <1>6, <1>7, <1>8, CallMovesAlone DEF MayBeAt, StorePlaces

\* What is known of a call.
LEMMA CallIs ==
    ASSUME SessionInv, NEW c \in Calls
    PROVE  /\ call[c] \in CallOf(mw.kind) /\ call[c].sid \in 0 .. minted
           /\ call[c].data \in Data /\ call[c].payload \in Data
           /\ call[c].cookies \in Cookies(mw.kind)
           /\ call[c].sid \in Nat /\ call[c].changes \in [Names -> SUBSET Value(mw.kind)]
           /\ mw.kind = "cookie" => /\ WholeJar(call[c].cookies, now)
                                    /\ WholeChange(call[c].changes, mw.chunked, now)
<1>1. call[c] \in CallOf(mw.kind)
    BY DEF SessionInv, TypeOK
<1> QED
    BY <1>1 DEF SessionInv, TypeOK, CookiesInv, CallOf

\* The signed-cookie middleware reads.
LEMMA StepDecode == ASSUME SessionInv, NEW c \in Calls, DecodeRequest(c) PROVE SessionInv'
<1>1. PICK d : d = decode_cookie(CookieValue(call[c].cookies))
    OBVIOUS
<1>2. mw.kind = "cookie" /\ now \in 0 .. MaxNow
    BY DEF DecodeRequest, SessionInv, TypeOK
<1>3. d \in Data
    <2>1. CookieValue(call[c].cookies) = None \/ IsWhole(CookieValue(call[c].cookies), now)
        BY <1>2, CallIs, JarIsRead
    <2>2. Empty \in Data
        BY DEF Empty, Data
    <2> QED
        BY <1>1, <1>2, <2>1, <2>2, WholeLoads, EmptyDecodes
<1>4. PICK n \in BOOLEAN : n = (d = Empty)
    OBVIOUS
<1>5. PICK x : x = [call[c] EXCEPT !.pc = "handling", !.new = n, !.data = d]
    OBVIOUS
<1>6. call[c] \in CallOf(mw.kind)
    BY CallIs
<1>7. /\ x \in CallOf(mw.kind) /\ x.pc = "handling" /\ x.sid = call[c].sid
      /\ x.changes = call[c].changes /\ x.cookies = call[c].cookies
    <2>1. PICK y \in CallOf(mw.kind) : y = call[c]
        BY <1>6
    <2>2. x = [y EXCEPT !.pc = "handling", !.new = n, !.data = d]
        BY <1>5, <2>1
    <2>3. /\ x \in CallOf(mw.kind) /\ x.pc = "handling" /\ x.sid = y.sid
          /\ x.changes = y.changes /\ x.cookies = y.cookies
        BY <1>3, <2>2 DEF CallOf, Places
    <2> QED
        BY <2>1, <2>3
<1>8. call' = [call EXCEPT ![c].pc = "handling", ![c].new = n, ![c].data = d]
    BY <1>1, <1>4 DEF DecodeRequest
<1>9. call' = [call EXCEPT ![c] = x]
    BY <1>5, <1>8 DEF SessionInv, TypeOK
<1>10. UNCHANGED <<mw, now, entries, minted, ended, anon, jar>>
    BY DEF DecodeRequest
<1> QED
    BY <1>7, <1>9, <1>10, CallIs, CallMovesAlone DEF MayBeAt, StorePlaces

\* The server-side middleware reads, and drops an entry that has expired.
LEMMA StepRead == ASSUME SessionInv, NEW c \in Calls, ReadRequest(c) PROVE SessionInv'
<1>1. PICK s : s = IF call[c].cookies[Main] = None THEN NoId ELSE call[c].cookies[Main][1]
    OBVIOUS
<1>2. call[c] \in CallOf(mw.kind) /\ mw.kind = "server"
    BY CallIs DEF ReadRequest
<1>3. UNCHANGED <<mw, now, minted, ended, anon, jar>>
    BY DEF ReadRequest
<1>4. CASE Live(s)
    <2>1. s \in DOMAIN entries /\ s \in Nat /\ s \in 0 .. minted
        BY <1>4 DEF Live, SessionInv, TypeOK
    <2>2. PICK d \in Data : d = entries[s].data
        <3>1. entries[s] \in [data : Data, exp : Nat]
            BY <2>1 DEF SessionInv, TypeOK
        <3> QED
            BY <3>1
    <2>3. PICK x : x = [call[c] EXCEPT !.pc = "handling", !.new = FALSE, !.sid = s, !.data = d]
        OBVIOUS
    <2>4. /\ x \in CallOf(mw.kind) /\ x.pc = "handling" /\ x.sid = s
        <3>1. PICK y \in CallOf(mw.kind) : y = call[c]
            BY <1>2
        <3>2. x = [y EXCEPT !.pc = "handling", !.new = FALSE, !.sid = s, !.data = d]
            BY <2>3, <3>1
        <3> QED
            BY <2>1, <3>2 DEF CallOf, Places
    <2>5. call' = [call EXCEPT ![c].pc = "handling", ![c].new = FALSE, ![c].sid = s, ![c].data = d]
        BY <1>1, <1>4, <2>2 DEF ReadRequest
    <2>6. call' = [call EXCEPT ![c] = x]
        BY <2>3, <2>5 DEF SessionInv, TypeOK
    <2>7. entries' = entries
        BY <1>1, <1>4 DEF ReadRequest
    <2> QED
        BY <1>2, <1>3, <2>1, <2>4, <2>6, <2>7, CallMovesAlone DEF MayBeAt, StorePlaces
<1>5. CASE ~Live(s)
    <2>1. PICK x : x = [call[c] EXCEPT !.pc = "handling"]
        OBVIOUS
    <2>2. x \in CallOf(mw.kind) /\ x.pc = "handling" /\ x.sid = call[c].sid
        BY <1>2, <2>1 DEF CallOf, Places
    <2>3. call' = [call EXCEPT ![c].pc = "handling"] /\ entries' = Without(s)
        BY <1>1, <1>5 DEF ReadRequest
    <2>4. call' = [call EXCEPT ![c] = x]
        BY <2>1, <2>3 DEF SessionInv, TypeOK
    <2>5. minted' \in {minted, minted + 1}
        BY <1>3
    <2>6. /\ call' \in [Calls -> CallOf(mw.kind)]
          /\ \A d \in Calls : call'[d].sid \in 0 .. minted'
          /\ PlacesInv'
        BY <1>2, <1>3, <2>2, <2>4, <2>5, CallIs, CallMoves DEF MayBeAt, StorePlaces
    <2>7. DOMAIN entries' \subseteq DOMAIN entries /\ entries' \in [DOMAIN entries' -> Entries]
        BY <2>3, WithoutIs DEF SessionInv, TypeOK, Entries
    <2>8. TypeOK'
        BY <1>3, <2>6, <2>7 DEF SessionInv, TypeOK, Entries
    <2>9. CookiesInv'
        BY <1>2, <1>3 DEF CookiesInv
    <2>10. EndedStaysEnded'
        BY <1>3, <2>7 DEF SessionInv, EndedStaysEnded
    <2> QED
        BY <2>6, <2>8, <2>9, <2>10 DEF SessionInv
<1> QED
    BY <1>4, <1>5

\* What the handler leaves is a session; what is kept of it is not empty.
LEMMA AfterOpIs ==
    ASSUME NEW data \in Data, NEW op \in Ops, NEW size \in 1 .. MaxSize, NEW perm \in BOOLEAN
    PROVE  /\ AfterOp(data, op, size, perm) \in Data
           /\ op = "put" => AfterOp(data, op, size, perm).size = size
<1>1. size \in Nat
    BY NamesAre
<1>2. CASE op = "put"
    <2>1. PICK p \in BOOLEAN : p = (perm \/ data.perm)
        OBVIOUS
    <2>2. AfterOp(data, op, size, perm) = [user |-> data.user, size |-> size, perm |-> p]
        BY <1>2, <2>1 DEF AfterOp
    <2> QED
        BY <1>1, <2>1, <2>2 DEF Data
<1>3. CASE op = "login"
    <2>1. AfterOp(data, op, size, perm) = [data EXCEPT !.user = TRUE, !.size = size]
        BY <1>3 DEF AfterOp
    <2> QED
        BY <1>1, <1>3, <2>1 DEF Data
<1>4. CASE op = "logout"
    BY <1>4 DEF AfterOp, Data, Empty
<1>5. CASE op \in {"none", "read"}
    BY <1>5 DEF AfterOp
<1> QED
    BY <1>2, <1>3, <1>4, <1>5 DEF Ops

\* The cookies of an answer, when the session is kept in a signed cookie.
LEMMA CookieAfterIs ==
    ASSUME SessionInv, mw.kind = "cookie", NEW x \in CallOf(mw.kind), WholeJar(x.cookies, now),
           NEW modified \in BOOLEAN, NEW data \in Data, modified => data = Empty \/ data.size > 0
    PROVE  LET y == CookieAfter(x, modified, data)
           IN  /\ y \in CallOf(mw.kind) /\ y.pc = "answered" /\ y.sid = x.sid
               /\ WholeJar(y.cookies, now) /\ WholeChange(y.changes, mw.chunked, now)
<1>1. PICK h : h = IF ~modified THEN NoChanges
                   ELSE IF data = Empty THEN clear_chunks([NoChanges EXCEPT ![Main] = Gone])
                   ELSE CookieChanges(<<x.by, x.hop>>, data)
    OBVIOUS
<1>2. mw \in Middleware /\ now \in Nat /\ mw.chunked \in BOOLEAN
    BY NamesAre DEF SessionInv, TypeOK, Middleware
<1>3. WholeChange(h, mw.chunked, now)
    <2>1. CASE ~modified
        BY <1>1, <2>1 DEF WholeChange
    <2>2. CASE modified /\ data = Empty
        BY <1>1, <1>2, <2>2, DeletionIsWhole
    <2>3. CASE modified /\ data # Empty
        <3>1. <<x.by, x.hop>> \in Tags
            BY DEF CallOf, Tags
        <3> QED
            BY <1>1, <1>2, <2>3, <3>1, CookieChangesAreWhole
    <2> QED
        BY <2>1, <2>2, <2>3
<1>4. h \in [Names -> SUBSET Value(mw.kind)]
    <2>1. \A n \in Names : h[n] \in SUBSET Value(mw.kind)
        <3>1. CASE h = NoChanges
            BY <3>1 DEF NoChanges
        <3>2. CASE h # NoChanges
            <4>1. PICK f \in Cookies("cookie") : \A n \in Names :
                      h[n] = IF n = Main \/ mw.chunked THEN {f[n]} ELSE {}
                BY <1>3, <3>2 DEF WholeChange
            <4>2. \A n \in Names : f[n] \in Value(mw.kind)
                BY DEF Cookies
            <4> QED
                BY <4>1, <4>2
        <3> QED
            BY <3>1, <3>2
    <2>2. h = [n \in Names |-> h[n]]
        BY <1>1 DEF NoChanges, clear_chunks, CookieChanges, write_chunks
    <2> QED
        BY <2>1, <2>2
<1>5. PICK y : y = [x EXCEPT !.pc = "answered", !.changes = h]
    OBVIOUS
<1>6. CookieAfter(x, modified, data) = y
    BY <1>1, <1>5 DEF CookieAfter
<1>7. /\ y \in CallOf(mw.kind) /\ y.pc = "answered" /\ y.sid = x.sid
      /\ y.cookies = x.cookies /\ y.changes = h
    BY <1>4, <1>5 DEF CallOf, Places
<1> QED
    BY <1>3, <1>6, <1>7

\* Where the server-side middleware goes on.
LEMMA AfterIs ==
    ASSUME NEW kind, NEW x \in CallOf(kind), NEW op, NEW data, NEW modified \in BOOLEAN
    PROVE  LET y == After(x, op, data, modified)
           IN  /\ y \in CallOf(kind) /\ y.pc # "overwriting" /\ y.sid = x.sid
<1>1. PICK p : /\ p \in {"touching", "answered", "writing", "deleting", "replacing"}
               /\ After(x, op, data, modified) = [x EXCEPT !.pc = p]
    <2>1. CASE ~modified
        BY <2>1 DEF After
    <2>2. CASE modified /\ x.sid = NoId
        BY <2>2 DEF After
    <2>3. CASE modified /\ x.sid # NoId
        BY <2>3 DEF After
    <2> QED
        BY <2>1, <2>2, <2>3
<1> QED
    BY <1>1 DEF CallOf, Places

\* The handler runs and the middleware answers, up to its first await.
LEMMA StepHandle == ASSUME SessionInv, NEW c \in Calls, Handle(c) PROVE SessionInv'
<1>1. PICK op \in Ops, status \in {"ok", "error", "redirect"}, size \in 1 .. MaxSize, perm \in BOOLEAN :
          /\ op = "put" \/ (size = 1 /\ ~perm)
          /\ mw.kind = "cookie" \/ size = 1
          /\ mw.kind = "server" \/ op # "login"
          /\ call[c].data = Empty \/ ~perm
          /\ LET data == AfterOp(call[c].data, op, size, perm)
                 x == [call[c] EXCEPT !.data = data, !.status = status]
             IN  call' = [call EXCEPT ![c] =
                            CASE ~Persists(status) -> [x EXCEPT !.pc = "answered"]
                              [] Persists(status) /\ mw.kind = "cookie" -> CookieAfter(x, Modified(c, op), data)
                              [] Persists(status) /\ mw.kind = "server" -> After(x, op, data, Modified(c, op))]
    BY DEF Handle
<1>2. PICK data \in Data : /\ data = AfterOp(call[c].data, op, size, perm)
                           /\ op = "put" => data.size = size
    BY CallIs, AfterOpIs
<1>3. PICK m \in BOOLEAN : m = Modified(c, op)
    BY DEF Modified
<1>4. PICK old \in CallOf(mw.kind) : old = call[c]
    BY CallIs
<1>5. PICK x : x = [old EXCEPT !.data = data, !.status = status]
    OBVIOUS
<1>6. /\ x \in CallOf(mw.kind) /\ x.sid = call[c].sid /\ x.changes = call[c].changes
      /\ x.cookies = call[c].cookies
    BY <1>4, <1>5 DEF CallOf
<1>7. PICK y : y = CASE ~Persists(status) -> [x EXCEPT !.pc = "answered"]
                     [] Persists(status) /\ mw.kind = "cookie" -> CookieAfter(x, m, data)
                     [] Persists(status) /\ mw.kind = "server" -> After(x, op, data, m)
    OBVIOUS
<1>8. call' = [call EXCEPT ![c] = y]
    BY <1>1, <1>2, <1>3, <1>4, <1>5, <1>7
<1>9. mw.kind \in {"cookie", "server"}
    BY DEF SessionInv, TypeOK, Middleware
<1>10. /\ y \in CallOf(mw.kind) /\ y.sid = call[c].sid /\ MayBeAt(mw, y.pc)
       /\ mw.kind = "cookie" => WholeJar(y.cookies, now) /\ WholeChange(y.changes, mw.chunked, now)
    <2>1. CASE ~Persists(status)
        <3>1. y = [x EXCEPT !.pc = "answered"]
            BY <1>7, <2>1
        <3>2. /\ y \in CallOf(mw.kind) /\ y.sid = x.sid /\ y.changes = x.changes
              /\ y.cookies = x.cookies /\ y.pc = "answered"
            BY <1>6, <3>1 DEF CallOf, Places
        <3> QED
            BY <1>6, <3>2, CallIs DEF MayBeAt, StorePlaces
    <2>2. CASE Persists(status) /\ mw.kind = "cookie"
        <3>1. y = CookieAfter(x, m, data)
            BY <1>7, <2>2
        <3>2. m => data = Empty \/ data.size > 0
            <4>1. CASE op = "put"
                BY <1>2, <4>1, NamesAre
            <4>2. CASE op = "logout"
                BY <1>2, <4>2 DEF AfterOp
            <4>3. CASE op \notin {"put", "logout"}
                BY <1>1, <1>3, <2>2, <4>3 DEF Modified
            <4> QED
                BY <4>1, <4>2, <4>3
        <3>3. WholeJar(x.cookies, now)
            BY <1>6, <2>2, CallIs
        <3>4. /\ y \in CallOf(mw.kind) /\ y.pc = "answered" /\ y.sid = x.sid
              /\ WholeJar(y.cookies, now) /\ WholeChange(y.changes, mw.chunked, now)
            BY <1>6, <2>2, <3>1, <3>2, <3>3, CookieAfterIs
        <3> QED
            BY <1>6, <3>4 DEF MayBeAt, StorePlaces
    <2>3. CASE Persists(status) /\ mw.kind = "server"
        BY <1>6, <1>7, <2>3, AfterIs DEF MayBeAt
    <2> QED
        BY <1>9, <2>1, <2>2, <2>3
<1>11. UNCHANGED <<mw, now, entries, minted, ended, anon, jar>>
    BY DEF Handle
<1> QED
    BY <1>8, <1>10, <1>11, CallIs, CallMovesAlone

\* A step of the server-side middleware that answers, or goes on, and changes
\* the store without bringing an ended id back.
LEMMA StoreMoves ==
    ASSUME SessionInv, mw.kind = "server", NEW c \in Calls, NEW x \in CallOf(mw.kind),
           call' = [call EXCEPT ![c] = x], x.sid = call[c].sid,
           x.pc = "overwriting" => ~mw.atomic,
           UNCHANGED <<mw, now, jar>>, minted' \in {minted, minted + 1},
           DOMAIN entries' \subseteq 0 .. minted', entries' \in [DOMAIN entries' -> Entries],
           ended' \subseteq 0 .. minted', anon' \subseteq 0 .. minted', EndedStaysEnded'
    PROVE  SessionInv'
<1>1. /\ call' \in [Calls -> CallOf(mw.kind)]
      /\ \A d \in Calls : call'[d].sid \in 0 .. minted'
      /\ PlacesInv'
    BY CallMoves, CallIs DEF MayBeAt
<1>2. minted' \in Nat
    BY DEF SessionInv, TypeOK
<1>3. TypeOK'
    BY <1>1, <1>2 DEF SessionInv, TypeOK, Entries
<1>4. CookiesInv'
    BY DEF CookiesInv
<1> QED
    BY <1>1, <1>3, <1>4 DEF SessionInv

\* The store calls are those of the server-side middleware; what they answer
\* with is an id.
LEMMA AtStore ==
    ASSUME SessionInv, NEW c \in Calls, call[c].pc \in StorePlaces
    PROVE  /\ mw.kind = "server" /\ Value(mw.kind) = Seq(Nat)
           /\ Gone \in SUBSET Value(mw.kind)
           /\ \A s \in Nat : {<<s>>} \in SUBSET Value(mw.kind)
           /\ entries \in [DOMAIN entries -> Entries] /\ now \in Nat /\ minted \in Nat
<1>1. mw.kind = "server"
    BY DEF SessionInv, PlacesInv, MayBeAt
<1>2. Value(mw.kind) = Seq(Nat)
    BY <1>1 DEF Value
<1>3. entries \in [DOMAIN entries -> Entries] /\ now \in Nat /\ minted \in Nat
    BY NamesAre DEF SessionInv, TypeOK, Entries
<1>4. None \in Seq(Nat)
    BY EmptySeq DEF None
<1>5. \A s \in Nat : <<s>> \in Seq(Nat)
    OBVIOUS
<1>6. \A s \in Nat : {<<s>>} \in SUBSET Value(mw.kind)
    BY <1>2, <1>5
<1>7. Gone \in SUBSET Value(mw.kind)
    BY <1>2, <1>4 DEF Gone
<1> QED
    BY <1>1, <1>2, <1>3, <1>6, <1>7

\* An id is revoked: its entry goes with it.
LEMMA StepDelete == ASSUME SessionInv, NEW c \in Calls, Delete(c) PROVE SessionInv'
<1>1. call[c].pc \in StorePlaces
    BY DEF Delete, StorePlaces
<1>2. PICK s \in 0 .. minted : s = call[c].sid
    BY CallIs
<1>3. /\ entries' = Without(s) /\ ended' = ended \cup {s} /\ UNCHANGED <<mw, now, minted, anon, jar>>
    BY <1>2 DEF Delete
<1>4. PICK x : /\ x \in CallOf(mw.kind) /\ x.sid = call[c].sid /\ x.pc # "overwriting"
               /\ call' = [call EXCEPT ![c] = x]
    <2>1. CASE call[c].data = Empty
        <3>1. PICK y \in CallOf(mw.kind) : y = call[c]
            BY CallIs
        <3>2. PICK h \in SUBSET Value(mw.kind) : h = Gone
            BY <1>1, AtStore
        <3>3. call' = [call EXCEPT ![c] = SetCookie(y, h)]
            BY <2>1, <3>1, <3>2 DEF Delete
        <3>4. PICK x : x = SetCookie(y, h)
            OBVIOUS
        <3>5. x \in CallOf(mw.kind) /\ x.sid = y.sid /\ x.pc = "answered"
            BY <3>4, SetCookieIs
        <3> QED
            BY <3>1, <3>3, <3>4, <3>5
    <2>2. CASE call[c].data # Empty
        <3>1. PICK y \in CallOf(mw.kind) : y = call[c]
            BY CallIs
        <3>2. PICK x : x = [y EXCEPT !.pc = "writing"]
            OBVIOUS
        <3>3. x \in CallOf(mw.kind) /\ x.sid = y.sid /\ x.pc = "writing"
            BY <3>2 DEF CallOf, Places
        <3>4. call' = [call EXCEPT ![c] = x]
            BY <2>2, <3>1, <3>2 DEF Delete
        <3> QED
            BY <3>1, <3>3, <3>4
    <2> QED
        BY <2>1, <2>2
<1>5. DOMAIN entries' = DOMAIN entries \ {s} /\ entries' \in [DOMAIN entries' -> Entries]
    BY <1>1, <1>3, AtStore, WithoutIs
<1>6. /\ DOMAIN entries' \subseteq 0 .. minted'
      /\ ended' \subseteq 0 .. minted' /\ anon' \subseteq 0 .. minted'
    BY <1>2, <1>3, <1>5 DEF SessionInv, TypeOK
<1>7. EndedStaysEnded'
    BY <1>3, <1>5 DEF SessionInv, EndedStaysEnded
<1> QED
    BY <1>1, <1>3, <1>4, <1>5, <1>6, <1>7, AtStore, StoreMoves

\* A fresh id, which none has revoked.
LEMMA StepWrite == ASSUME SessionInv, NEW c \in Calls, Write(c) PROVE SessionInv'
<1>1. call[c].pc \in StorePlaces
    BY DEF Write, StorePlaces
<1>2. PICK s \in Nat : s = minted + 1
    BY <1>1, AtStore
<1>3. PICK swept \in BOOLEAN :
          entries' = write(s, call[c].data, cookie_lifetime(call[c].data), swept)
    BY <1>2 DEF Write
<1>4. /\ minted' = s /\ anon' \subseteq anon \cup {s} /\ UNCHANGED <<mw, now, ended, jar>>
    BY <1>2 DEF Write
<1>5. PICK x : /\ x \in CallOf(mw.kind) /\ x.sid = call[c].sid /\ x.pc = "answered"
               /\ call' = [call EXCEPT ![c] = x]
    <2>1. PICK h \in SUBSET Value(mw.kind) : h = {<<s>>}
        BY <1>1, <1>2, AtStore
    <2>2. call' = [call EXCEPT ![c] = SetCookie(call[c], h)]
        BY <1>2, <2>1 DEF Write
    <2>3. PICK y \in CallOf(mw.kind) : y = call[c]
        BY CallIs
    <2>4. PICK x : x = SetCookie(y, h)
        OBVIOUS
    <2>5. x \in CallOf(mw.kind) /\ x.sid = y.sid /\ x.pc = "answered"
        BY <2>4, SetCookieIs
    <2> QED
        BY <2>2, <2>3, <2>4, <2>5
<1>6. /\ DOMAIN entries' \subseteq DOMAIN entries \cup {s}
      /\ entries' \in [DOMAIN entries' -> Entries]
    <2>1. PICK d \in Data : d = call[c].data
        BY CallIs
    <2>2. now \in Nat /\ entries \in [DOMAIN entries -> Entries]
        BY <1>1, AtStore
    <2>3. PICK age \in Nat : age = cookie_lifetime(d)
        BY LifetimeIs
    <2>4. entries' = write(s, d, age, swept)
        BY <1>3, <2>1, <2>3
    <2> QED
        BY <2>2, <2>4, WriteIs
<1>7. /\ DOMAIN entries' \subseteq 0 .. minted'
      /\ ended' \subseteq 0 .. minted' /\ anon' \subseteq 0 .. minted'
    BY <1>2, <1>4, <1>6 DEF SessionInv, TypeOK
<1>8. s \notin ended
    BY <1>2 DEF SessionInv, TypeOK
<1>9. EndedStaysEnded'
    BY <1>4, <1>6, <1>8 DEF SessionInv, EndedStaysEnded
<1> QED
    BY <1>1, <1>2, <1>4, <1>5, <1>6, <1>7, <1>9, AtStore, StoreMoves

\* An atomic replace or touch writes only over an entry that is there.
LEMMA StepRewrite == ASSUME SessionInv, NEW c \in Calls, Rewrite(c) PROVE SessionInv'
<1>1. call[c].pc \in StorePlaces
    BY DEF Rewrite, StorePlaces
<1>2. PICK s \in 0 .. minted : s = call[c].sid /\ s \in Nat
    BY CallIs
<1>3. UNCHANGED <<mw, now, minted, ended, jar>> /\ anon' \subseteq anon \cup {s}
    BY <1>2 DEF Rewrite
<1>4. /\ DOMAIN entries' \subseteq DOMAIN entries
      /\ entries' \in [DOMAIN entries' -> Entries]
    <2>0. PICK own \in Data, age \in Nat : own = call[c].data /\ age = cookie_lifetime(own)
        BY CallIs, LifetimeIs
    <2>1. PICK swept \in BOOLEAN :
              entries' = IF call[c].pc = "touching" THEN touch(s, age) ELSE replace(s, own, age, swept)
        BY <1>2, <2>0 DEF Rewrite
    <2>2. CASE Live(s)
        <3>1. s \in DOMAIN entries
            BY <2>2 DEF Live
        <3>2. PICK d \in Data : d = entries[s].data
            <4>1. entries[s] \in Entries
                BY <1>1, <3>1, AtStore
            <4> QED
                BY <4>1 DEF Entries
        <3>3. entries' \in {write(s, d, age, FALSE), write(s, own, age, swept)}
            BY <2>1, <2>2, <3>2 DEF touch, replace
        <3> QED
            <4>1. PICK e \in Data, swp \in BOOLEAN : entries' = write(s, e, age, swp)
                BY <3>3
            <4>2. now \in Nat /\ entries \in [DOMAIN entries -> Entries]
                BY <1>1, AtStore
            <4>3. /\ DOMAIN entries' \subseteq DOMAIN entries \cup {s}
                  /\ entries' \in [DOMAIN entries' -> Entries]
                BY <4>1, <4>2, WriteIs
            <4> QED
                BY <3>1, <4>3
    <2>3. CASE ~Live(s)
        <3>1. entries' = Without(s)
            BY <2>1, <2>3 DEF touch, replace
        <3> QED
            BY <1>1, <3>1, AtStore, WithoutIs
    <2> QED
        BY <2>2, <2>3
<1>5. PICK x : /\ x \in CallOf(mw.kind) /\ x.sid = call[c].sid /\ x.pc = "answered"
               /\ call' = [call EXCEPT ![c] = x]
    <2>1. PICK h \in SUBSET Value(mw.kind) : h = IF Live(s) THEN {<<s>>} ELSE Gone
        BY <1>1, <1>2, AtStore
    <2>2. call' = [call EXCEPT ![c] = SetCookie(call[c], h)]
        BY <1>2, <2>1 DEF Rewrite
    <2>3. PICK y \in CallOf(mw.kind) : y = call[c]
        BY CallIs
    <2>4. PICK x : x = SetCookie(y, h)
        OBVIOUS
    <2>5. x \in CallOf(mw.kind) /\ x.sid = y.sid /\ x.pc = "answered"
        BY <2>4, SetCookieIs
    <2> QED
        BY <2>2, <2>3, <2>4, <2>5
<1>6. /\ DOMAIN entries' \subseteq 0 .. minted'
      /\ ended' \subseteq 0 .. minted' /\ anon' \subseteq 0 .. minted'
    BY <1>2, <1>3, <1>4 DEF SessionInv, TypeOK
<1>7. EndedStaysEnded'
    BY <1>3, <1>4 DEF SessionInv, EndedStaysEnded
<1> QED
    BY <1>1, <1>3, <1>4, <1>5, <1>6, <1>7, AtStore, StoreMoves

\* The base class reads before it writes.
LEMMA StepBaseRead == ASSUME SessionInv, NEW c \in Calls, BaseRead(c) PROVE SessionInv'
<1>1. call[c].pc \in StorePlaces /\ ~mw.atomic
    BY DEF BaseRead, StorePlaces
<1>2. UNCHANGED <<mw, now, entries, minted, ended, anon, jar>>
    BY DEF BaseRead
<1>3. PICK x : /\ x \in CallOf(mw.kind) /\ x.sid = call[c].sid
               /\ call' = [call EXCEPT ![c] = x]
    <2>1. CASE ~Live(call[c].sid)
        BY <1>1, <2>1, CallIs, AtStore, SetCookieIs DEF BaseRead
    <2>2. CASE Live(call[c].sid)
        <3>1. PICK y \in CallOf(mw.kind) : y = call[c]
            BY CallIs
        <3>2. PICK d \in Data :
                  d = IF call[c].pc = "touching" THEN entries[call[c].sid].data ELSE call[c].data
            <4>1. entries[call[c].sid] \in Entries
                BY <1>1, <2>2, AtStore DEF Live
            <4> QED
                BY <4>1, CallIs DEF Entries
        <3>3. PICK x : x = [y EXCEPT !.pc = "overwriting", !.payload = d]
            OBVIOUS
        <3>4. x \in CallOf(mw.kind) /\ x.sid = y.sid
            BY <3>3 DEF CallOf, Places
        <3>5. call' = [call EXCEPT ![c] = x]
            BY <2>2, <3>1, <3>2, <3>3 DEF BaseRead
        <3> QED
            BY <3>1, <3>4, <3>5
    <2> QED
        BY <2>1, <2>2
<1>4. mw.kind = "server"
    BY <1>1, AtStore
<1> QED
    BY <1>1, <1>2, <1>3, <1>4, CallIs, CallMovesAlone DEF MayBeAt

\* The write of the base class, which promises nothing about ended ids.
LEMMA StepBaseWrite == ASSUME SessionInv, NEW c \in Calls, BaseWrite(c) PROVE SessionInv'
<1>1. call[c].pc \in StorePlaces /\ ~mw.atomic
    BY DEF BaseWrite, StorePlaces, SessionInv, PlacesInv, MayBeAt
<1>2. PICK s \in 0 .. minted : s = call[c].sid /\ s \in Nat
    BY CallIs
<1>3. /\ UNCHANGED <<mw, now, minted, ended, anon, jar>>
      /\ entries' = write(s, call[c].payload, cookie_lifetime(call[c].data), FALSE)
    BY <1>2 DEF BaseWrite
<1>4. /\ DOMAIN entries' \subseteq DOMAIN entries \cup {s}
      /\ entries' \in [DOMAIN entries' -> Entries]
    <2>1. PICK d \in Data : d = call[c].payload
        BY CallIs
    <2>2. now \in Nat /\ entries \in [DOMAIN entries -> Entries]
        BY <1>1, AtStore
    <2>3. PICK age \in Nat : age = cookie_lifetime(call[c].data)
        BY CallIs, LifetimeIs
    <2>4. entries' = write(s, d, age, FALSE)
        BY <1>3, <2>1, <2>3
    <2> QED
        BY <2>2, <2>4, WriteIs
<1>5. PICK x : /\ x \in CallOf(mw.kind) /\ x.sid = call[c].sid /\ x.pc = "answered"
               /\ call' = [call EXCEPT ![c] = x]
    <2>1. PICK h \in SUBSET Value(mw.kind) : h = {<<s>>}
        BY <1>1, <1>2, AtStore
    <2>2. call' = [call EXCEPT ![c] = SetCookie(call[c], h)]
        BY <1>2, <2>1 DEF BaseWrite
    <2>3. PICK y \in CallOf(mw.kind) : y = call[c]
        BY CallIs
    <2>4. PICK x : x = SetCookie(y, h)
        OBVIOUS
    <2>5. x \in CallOf(mw.kind) /\ x.sid = y.sid /\ x.pc = "answered"
        BY <2>4, SetCookieIs
    <2> QED
        BY <2>2, <2>3, <2>4, <2>5
<1>6. /\ DOMAIN entries' \subseteq 0 .. minted'
      /\ ended' \subseteq 0 .. minted' /\ anon' \subseteq 0 .. minted'
    BY <1>2, <1>3, <1>4 DEF SessionInv, TypeOK
<1>7. EndedStaysEnded'
    BY <1>1, <1>3 DEF EndedStaysEnded
<1> QED
    BY <1>1, <1>3, <1>4, <1>5, <1>6, <1>7, AtStore, StoreMoves

\* An answer reaches the jar with all of its cookies.
LEMMA StepReceive == ASSUME SessionInv, NEW c \in Calls, Receive(c) PROVE SessionInv'
<1>1. PICK f : f = Applied(call[c].changes)
    OBVIOUS
<1>2. f \in Cookies(mw.kind) /\ (mw.kind = "cookie" => WholeJar(f, now))
    <2>1. CASE mw.kind = "cookie"
        <3>1. jar \in Cookies("cookie") /\ WholeJar(jar, now) /\ mw \in Middleware
            BY <2>1 DEF SessionInv, TypeOK, CookiesInv
        <3> QED
            BY <1>1, <2>1, <3>1, CallIs, AppliedIsWhole
    <2>2. CASE mw.kind # "cookie"
        <3>1. PICK h \in [Names -> SUBSET Value(mw.kind)] : h = call[c].changes
            BY CallIs
        <3>2. \A n \in Names : f[n] = IF h[n] = {} THEN jar[n] ELSE CHOOSE v \in h[n] : TRUE
            BY <1>1, <3>1 DEF Applied
        <3>3. \A n \in Names : jar[n] \in Value(mw.kind)
            BY DEF SessionInv, TypeOK, Cookies
        <3>4. \A n \in Names : f[n] \in Value(mw.kind)
            <4>1. TAKE n \in Names
            <4>2. PICK g \in SUBSET Value(mw.kind) : g = h[n]
                BY <3>1
            <4>3. g # {} => (CHOOSE v \in g : TRUE) \in g
                OBVIOUS
            <4> QED
                BY <3>2, <3>3, <4>2, <4>3
        <3>5. f = [n \in Names |-> f[n]]
            BY <1>1 DEF Applied
        <3> QED
            BY <2>2, <3>4, <3>5 DEF Cookies
    <2> QED
        BY <2>1, <2>2
<1>3. jar' = f /\ UNCHANGED <<mw, now, entries, minted, ended, anon>>
    BY <1>1 DEF Receive
<1>4. PICK x : x = NextHop(call[c], f)
    OBVIOUS
<1>5. call' = [call EXCEPT ![c] = x]
    BY <1>3, <1>4 DEF Receive
<1>6. /\ x \in CallOf(mw.kind) /\ x.pc \in {"sent", "done", "raised"} /\ x.sid = 0
      /\ x.changes = NoChanges /\ x.cookies \in {NoCookies, f}
    BY <1>2, <1>4, CallIs, NextHopIs
<1>7. mw.kind = "cookie" => WholeJar(x.cookies, now) /\ WholeChange(x.changes, mw.chunked, now)
    BY <1>2, <1>6, NoCookiesAreWhole DEF WholeChange
<1>8. x.sid \in 0 .. minted
    BY <1>6 DEF SessionInv, TypeOK
<1>9. MayBeAt(mw, x.pc)
    BY <1>6 DEF MayBeAt, StorePlaces
<1>10. /\ call' \in [Calls -> CallOf(mw.kind)]
       /\ \A d \in Calls : call'[d].sid \in 0 .. minted'
       /\ PlacesInv'
       /\ mw.kind = "cookie" => \A d \in Calls : /\ WholeJar(call'[d].cookies, now)
                                                /\ WholeChange(call'[d].changes, mw.chunked, now)
    BY <1>3, <1>5, <1>6, <1>7, <1>8, <1>9, CallMoves
<1>11. TypeOK'
    BY <1>2, <1>3, <1>10 DEF SessionInv, TypeOK
<1>12. CookiesInv'
    BY <1>2, <1>3, <1>10 DEF CookiesInv
<1>13. EndedStaysEnded'
    BY <1>3 DEF SessionInv, EndedStaysEnded
<1> QED
    BY <1>10, <1>11, <1>12, <1>13 DEF SessionInv

\* The test client seeds the whole cookie; the chunks stay as they are.
LEMMA StepTransaction == ASSUME SessionInv, session_transaction PROVE SessionInv'
<1>1. /\ mw.kind = "cookie" /\ UNCHANGED <<mw, now, entries, minted, ended, anon, call>>
      /\ now \in 0 .. MaxNow /\ now \in Nat
    BY NamesAre DEF session_transaction, SessionInv, TypeOK
<1>2. PICK old \in Data : old = decode_cookie(jar[Main])
    <2>1. jar[Main] = None \/ IsWhole(jar[Main], now)
        BY <1>1 DEF SessionInv, CookiesInv, WholeJar
    <2>2. Empty \in Data
        BY DEF Empty, Data
    <2> QED
        BY <1>1, <2>1, <2>2, WholeLoads, EmptyDecodes
<1>3. PICK data \in Data : data = AfterOp(old, "put", 1, FALSE) /\ data.size = 1
    <2>1. "put" \in Ops /\ 1 \in 1 .. MaxSize
        BY NamesAre DEF Ops
    <2> QED
        BY <2>1, AfterOpIs
<1>4. PICK v : v = PiecesOf(<<"test">>, now, data)
    OBVIOUS
<1>5. <<"test">> \in Tags
    BY DEF Tags
<1>6. v \in Seq(Piece) /\ IsWhole(v, now)
    <2>1. now \in 0 .. now
        BY <1>1
    <2> QED
        <3>1. data.size > 0
            <4>1. data.size = 1
                BY <1>3
            <4> QED
                BY <4>1
        <3>2. v \in Seq(Piece)
            BY <1>1, <1>4, <1>5, <3>1, PiecesAreWhole
        <3> QED
            BY <1>4, <1>5, <2>1, <3>1, <3>2 DEF IsWhole
<1>7. jar' = [jar EXCEPT ![Main] = v]
    BY <1>2, <1>3, <1>4 DEF session_transaction, Signed, PiecesOf
<1>8. jar \in [Names -> Seq(Piece)] /\ WholeJar(jar, now)
    BY <1>1 DEF SessionInv, TypeOK, CookiesInv, Cookies, Value
<1>9. jar' \in Cookies(mw.kind) /\ jar'[Main] = v /\ \A n \in Chunk : jar'[n] = jar[n]
    BY <1>1, <1>6, <1>7, <1>8, NamesAre DEF Cookies, Value
<1>10. WholeChunks(jar', now)
    <2>1. PICK k \in 0 .. MaxChunks : /\ \A i \in Chunk : jar[i] # None <=> i < k
                                      /\ k > 0 => IsWhole(Chunks(jar, k), now)
        BY <1>8 DEF WholeJar, WholeChunks
    <2>2. \A i \in 1 .. k : i - 1 \in Chunk
        BY <2>1, NamesAre DEF Chunk
    <2>3. Chunks(jar', k) = Chunks(jar, k)
        BY <1>9, <2>2 DEF Chunks
    <2> QED
        BY <1>9, <2>1, <2>3 DEF WholeChunks
<1>11. WholeJar(jar', now)
    BY <1>6, <1>9, <1>10 DEF WholeJar
<1>12. TypeOK'
    BY <1>1, <1>9 DEF SessionInv, TypeOK
<1>13. CookiesInv'
    BY <1>1, <1>11 DEF SessionInv, CookiesInv
<1> QED
    BY <1>1, <1>12, <1>13 DEF SessionInv, PlacesInv, EndedStaysEnded

\* A signed value stays one as time goes by.
LEMMA StaysWhole ==
    ASSUME NEW t \in Nat
    PROVE  /\ \A f : WholeJar(f, t) => WholeJar(f, t + 1)
           /\ \A h, chunked : WholeChange(h, chunked, t) => WholeChange(h, chunked, t + 1)
<1>1. \A at \in 0 .. t : at \in 0 .. (t + 1)
    OBVIOUS
<1>2. \A v : IsWhole(v, t) => IsWhole(v, t + 1)
    BY <1>1 DEF IsWhole
<1>3. \A f : WholeChunks(f, t) => WholeChunks(f, t + 1)
    BY <1>2 DEF WholeChunks
<1>4. \A f : WholeJar(f, t) => WholeJar(f, t + 1)
    BY <1>2, <1>3 DEF WholeJar
<1>5. \A h, chunked : WholeChange(h, chunked, t) => WholeChange(h, chunked, t + 1)
    BY <1>4 DEF WholeChange
<1> QED
    BY <1>4, <1>5

\* Time goes by.
LEMMA StepTick == ASSUME SessionInv, Tick PROVE SessionInv'
<1>1. now \in Nat /\ now' = now + 1 /\ now' \in 0 .. MaxNow
    BY NamesAre DEF SessionInv, TypeOK, Tick
<1>2. UNCHANGED <<mw, entries, minted, ended, anon, jar, call>>
    BY DEF Tick
<1>3. TypeOK'
    BY <1>1, <1>2 DEF SessionInv, TypeOK
<1>4. CookiesInv'
    BY <1>1, <1>2, StaysWhole DEF SessionInv, CookiesInv
<1> QED
    BY <1>2, <1>3, <1>4 DEF SessionInv, PlacesInv, EndedStaysEnded

\* The invariant holds at the start.
LEMMA InitInv == Init => SessionInv
<1>1. SUFFICES ASSUME Init PROVE SessionInv
    OBVIOUS
<1>2. mw \in Middleware
    BY <1>1 DEF Init, Middleware
<1>3. jar = NoCookies /\ jar \in Cookies(mw.kind)
    <2>1. None \in Value(mw.kind)
        BY EmptySeq DEF None, Value
    <2> QED
        BY <1>1, <2>1 DEF Init, NoCookies, Cookies
<1>4. call \in [Calls -> CallOf(mw.kind)] /\ \A c \in Calls : call[c] = Idle(c)
    BY <1>1, IdleIs DEF Init
<1>5. DOMAIN entries = {} /\ entries \in [DOMAIN entries -> [data : Data, exp : Nat]]
    BY <1>1 DEF Init
<1>6. now \in 0 .. MaxNow /\ minted = 0 /\ ended = {} /\ anon = {}
    BY <1>1, NamesAre DEF Init
<1>7. \A c \in Calls : call[c].sid = 0 /\ call[c].pc = "idle" /\ call[c].cookies = NoCookies
                       /\ call[c].changes = NoChanges
    BY <1>4, IdleIs
<1>8. TypeOK
    BY <1>2, <1>3, <1>4, <1>5, <1>6, <1>7 DEF TypeOK
<1>9. CookiesInv
    BY <1>3, <1>7, NoCookiesAreWhole DEF CookiesInv, WholeChange
<1>10. PlacesInv
    BY <1>7 DEF PlacesInv, MayBeAt, StorePlaces
<1> QED
    BY <1>6, <1>8, <1>9, <1>10 DEF SessionInv, EndedStaysEnded

\* Every step keeps the invariant.
LEMMA NextInv == SessionInv /\ [Next]_vars => SessionInv'
<1>1. SUFFICES ASSUME SessionInv, [Next]_vars PROVE SessionInv'
    OBVIOUS
<1>2. CASE UNCHANGED vars
    BY <1>1, <1>2 DEF SessionInv, TypeOK, CookiesInv, PlacesInv, EndedStaysEnded, vars
<1>3. ASSUME NEW c \in Calls, Send(c) \/ Step(c) PROVE SessionInv'
    BY <1>1, <1>3, StepSend, StepDecode, StepRead, StepHandle, StepDelete, StepWrite,
       StepRewrite, StepBaseRead, StepBaseWrite, StepReceive DEF Step
<1> QED
    BY <1>1, <1>2, <1>3, StepTransaction, StepTick DEF Next

\* The invariant the theorems rest on.
THEOREM InvHolds == Spec => []SessionInv
BY InitInv, NextInv, PTL DEF Spec

\* The state has its type: in particular the cookies are pieces of signed
\* values under one middleware and ids under the other.
THEOREM SessionTypes == Spec => []TypeOK
BY InvHolds, PTL DEF SessionInv

\* An id that a logout or a login revoked never names an entry again under a
\* store whose replace is atomic, whatever requests are in flight with it.
THEOREM EndedIdsStayEnded == Spec => []EndedStaysEnded
BY InvHolds, PTL DEF SessionInv

\* Whole cookies are read as one session.
LEMMA InvReadsOne == SessionInv => JarIsOneSession
<1>1. SUFFICES ASSUME SessionInv, mw.kind = "cookie", CookieValue(jar) # None
               PROVE  Loads(CookieValue(jar), MaxNow)
    BY DEF JarIsOneSession
<1>2. now \in 0 .. MaxNow /\ WholeJar(jar, now)
    BY <1>1 DEF SessionInv, TypeOK, CookiesInv
<1> QED
    BY <1>1, <1>2, JarIsRead, WholeLoads

\* In whatever order the answers arrive, what the server reads of the jar is
\* one signed value, complete, or nothing.
THEOREM JarHoldsOneSession == Spec => []JarIsOneSession
BY InvHolds, InvReadsOne, PTL
=============================================================================
