---------------------------- MODULE WebSessions ----------------------------
(***************************************************************************)
(* Sessions between a client with one cookie jar and the two session       *)
(* middlewares (middleware/sessions.py, sessions.py, signing.py): signed   *)
(* cookies, whole or in chunks, and server-side entries under an opaque    *)
(* id.  The client is the AsyncTestClient (testclient.py): its concurrent  *)
(* calls share the jar, follow redirects, and their answers arrive in any  *)
(* order.                                                                  *)
(***************************************************************************)
EXTENDS Integers, Sequences, FiniteSets, TLC

CONSTANTS Calls,         \* concurrent calls of one client
          MaxRedirects,  \* _MAX_REDIRECTS
          MaxChunks,     \* max_chunks
          MaxSize,       \* bound on the size of a session, in chunk budgets
          MaxNow,        \* bound on the clock
          MaxAge,        \* max_age of an ordinary session
          Lifetime       \* permanent_lifetime

ASSUME SessionAssumption ==
    /\ MaxChunks \in Nat \ {0} /\ MaxSize \in Nat \ {0} /\ MaxNow \in Nat
    /\ MaxAge \in Nat \ {0} /\ Lifetime \in Nat \ {0}
    /\ MaxRedirects \in Nat

VARIABLES mw,       \* the middleware installed: kind and options
          now,      \* the clock
          entries,  \* the server-side store: id -> [data, exp]
          minted,   \* ids given out by token_urlsafe
          ended,    \* ids revoked by a logout or a regeneration
          anon,     \* ids that ever held a session nobody had logged in to
          jar,      \* the client's cookies
          call      \* what each call is doing

vars == <<mw, now, entries, minted, ended, anon, jar, call>>

Chunk == 0..(MaxChunks - 1)
Main == -1
Names == {Main} \cup Chunk           \* wire_cookie_name and _chunk_name(i)
None == << >>
NoCookies == [n \in Names |-> None]

(* The Set-Cookie headers of an answer: nothing, a deletion or a value.    *)
NoChanges == [n \in Names |-> {}]
Gone == {None}

Empty == [user |-> FALSE, size |-> 0, perm |-> FALSE]
NoId == 0

-----------------------------------------------------------------------------
(* Signed cookies.                                                         *)

(* A signed value of `size` pieces: which answer signed it, and when.      *)
Signed(by, data) == [i \in 1..data.size |-> [by |-> by, at |-> now, data |-> data, part |-> i]]

(* Signer.loads: the signature covers every piece; the age is checked      *)
(* against max_age and may not be negative.                                *)
Loads(value, age) ==
    /\ value # None
    /\ Len(value) = value[1].data.size
    /\ \A i \in DOMAIN value : value[i] = [value[1] EXCEPT !.part = i]
    /\ now - value[1].at \in 0..age

LongestAge == IF MaxAge > Lifetime THEN MaxAge ELSE Lifetime

cookie_lifetime(data) == IF data.perm THEN Lifetime ELSE MaxAge

(* decode_cookie: the laxer of the two ages first, then the session's own. *)
decode_cookie(value) ==
    IF Loads(value, LongestAge) /\ Loads(value, cookie_lifetime(value[1].data))
    THEN value[1].data ELSE Empty

(* The chunks from 0 up to the first that is missing.                      *)
reassemble_chunks(cookies) ==
    LET run == CHOOSE k \in 0..MaxChunks : (\A i \in Chunk : i < k => cookies[i] # None)
                                           /\ (k = MaxChunks \/ cookies[k] = None)
    IN  IF run = 0 THEN None ELSE [i \in 1..run |-> cookies[i - 1][1]]

(* What the cookie middleware reads of a jar.                              *)
CookieValue(cookies) ==
    IF cookies[Main] # None THEN cookies[Main]
    ELSE IF mw.chunked THEN reassemble_chunks(cookies) ELSE None

clear_chunks(changes) ==
    [n \in Names |-> IF mw.chunked /\ n \in Chunk THEN Gone ELSE changes[n]]

(* Too large for one cookie: one piece per chunk, the chunks past the last *)
(* and the whole cookie deleted; nothing is written past max_chunks.       *)
WriteKeepsStale(value) ==
    [n \in Names |-> IF n \in Chunk THEN IF n < Len(value) THEN {<<value[n + 1]>>} ELSE {} ELSE Gone]

write_chunks(value) ==
    [n \in Names |-> IF n \in Chunk /\ n < Len(value) THEN {<<value[n + 1]>>} ELSE Gone]

(* SessionMiddleware.process_response for a session that is to be written. *)
CookieChanges(by, data) ==
    LET value == Signed(by, data) IN
    IF data.size = 1 THEN clear_chunks([NoChanges EXCEPT ![Main] = {value}])
    ELSE IF ~mw.chunked THEN NoChanges
    ELSE IF Len(value) <= MaxChunks THEN write_chunks(value)
    ELSE clear_chunks([NoChanges EXCEPT ![Main] = Gone])

-----------------------------------------------------------------------------
(* The in-memory store.                                                    *)

Live(s) == s \in DOMAIN entries /\ entries[s].exp > now

Without(s) == [x \in DOMAIN entries \ {s} |-> entries[x]]

(* sweep_expired, which a write sometimes runs (_maybe_sweep).             *)
Swept(store) == [x \in {y \in DOMAIN store : store[y].exp > now} |-> store[x]]

write(s, data, age, swept) ==
    LET store == [x \in DOMAIN entries \cup {s} |->
                    IF x = s THEN [data |-> data, exp |-> now + age]
                    ELSE entries[x]]
    IN  IF swept THEN Swept(store) ELSE store

(* replace and touch write over an entry that is still there, and drop one *)
(* that has expired; touch keeps the payload that is there.                *)
ReplaceBlind(s, data, age, swept) == write(s, data, age, swept)

replace(s, data, age, swept) == IF Live(s) THEN write(s, data, age, swept) ELSE Without(s)
touch(s, age) == IF Live(s) THEN write(s, entries[s].data, age, FALSE) ELSE Without(s)

-----------------------------------------------------------------------------
Idle(c) == [by |-> c, pc |-> "idle", hop |-> 0, cookies |-> NoCookies, sid |-> NoId, data |-> Empty,
         payload |-> Empty, new |-> TRUE, status |-> "ok", changes |-> NoChanges]

Init ==
    /\ mw \in [kind : {"cookie"}, chunked : BOOLEAN, renew : {FALSE}, atomic : {FALSE}]
              \cup [kind : {"server"}, chunked : {FALSE}, renew : BOOLEAN, atomic : BOOLEAN]
    /\ now = 0 /\ minted = 0
    /\ entries = [s \in {} |-> Empty]
    /\ ended = {} /\ anon = {}
    /\ jar = NoCookies
    /\ call = [c \in Calls |-> Idle(c)]

(* The client sends: the Cookie header is built from the jar as it is now. *)
Send(c) ==
    /\ call[c].pc = "idle"
    /\ call' = [call EXCEPT ![c] = [Idle(c) EXCEPT !.pc = "sent", !.cookies = jar]]
    /\ UNCHANGED <<mw, now, entries, minted, ended, anon, jar>>

(* process_request of the signed-cookie middleware.                        *)
DecodeRequest(c) ==
    /\ call[c].pc = "sent" /\ mw.kind = "cookie"
    /\ LET decoded == decode_cookie(CookieValue(call[c].cookies))
       IN  call' = [call EXCEPT ![c].pc = "handling", ![c].new = (decoded = Empty),
                                ![c].data = decoded]
    /\ UNCHANGED <<mw, now, entries, minted, ended, anon, jar>>

(* process_request of the server-side one: an absent or expired entry      *)
(* starts a new session that has no id yet.                                *)
ReadRequest(c) ==
    /\ call[c].pc = "sent" /\ mw.kind = "server"
    /\ LET s == IF call[c].cookies[Main] = None THEN NoId ELSE call[c].cookies[Main][1] IN
       IF Live(s)
       THEN /\ call' = [call EXCEPT ![c].pc = "handling", ![c].new = FALSE, ![c].sid = s,
                                    ![c].data = entries[s].data]
            /\ UNCHANGED entries
       ELSE /\ call' = [call EXCEPT ![c].pc = "handling"]
            /\ entries' = Without(s)
    /\ UNCHANGED <<mw, now, minted, ended, anon, jar>>

(* What a handler does with request.session.                               *)
Ops == {"none", "read", "put", "login", "logout"}

Modified(c, op) == op \in {"put", "login"} \/ (op = "logout" /\ call[c].data # Empty)

AfterOp(data, op, size, perm) ==
    CASE op = "put" -> [user |-> data.user, size |-> size,
                        perm |-> perm \/ data.perm]
      [] op = "login" -> [data EXCEPT !.user = TRUE, !.size = size]
      [] op = "logout" -> Empty
      [] OTHER -> data

(* A 5xx persists nothing.                                                 *)
Persists(status) == status # "error"

(* As After, but a login keeps the id of the session it found.             *)
LoginKeepsId(x, op, data, modified) ==
    [x EXCEPT !.pc = IF ~modified THEN "answered" ELSE IF x.sid = NoId THEN "writing" ELSE "replacing"]

(* _renew: a session that was only looked at slides its expiry.            *)
Renewing(x, op) == mw.renew /\ op = "read" /\ ~x.new

(* SessionMiddleware.process_response.                                     *)
CookieAfter(x, modified, data) ==
    [x EXCEPT !.pc = "answered",
              !.changes = IF ~modified THEN NoChanges
                          ELSE IF data = Empty THEN clear_chunks([NoChanges EXCEPT ![Main] = Gone])
                          ELSE CookieChanges(<<x.by, x.hop>>, data)]

(* ServerSessionMiddleware.process_response, up to its first await.        *)
After(x, op, data, modified) ==
    [x EXCEPT !.pc = CASE ~modified -> IF Renewing(x, op) THEN "touching" ELSE "answered"
                       [] modified /\ x.sid = NoId -> IF data = Empty THEN "answered" ELSE "writing"
                       [] modified /\ x.sid # NoId ->
                            IF data = Empty \/ op = "login" THEN "deleting" ELSE "replacing"]

Handle(c) ==
    /\ call[c].pc = "handling"
    /\ \E op \in Ops, status \in {"ok", "error", "redirect"}, size \in 1..MaxSize, perm \in BOOLEAN :
          /\ op = "put" \/ (size = 1 /\ ~perm)
          /\ mw.kind = "cookie" \/ size = 1    \* only a cookie's size matters
          /\ mw.kind = "server" \/ op # "login" \* a signed cookie has no id to move
          /\ call[c].data = Empty \/ ~perm     \* permanent is set on a new session
          /\ LET data == AfterOp(call[c].data, op, size, perm)
                 x == [call[c] EXCEPT !.data = data, !.status = status]
             IN  call' = [call EXCEPT ![c] =
                            CASE ~Persists(status) -> [x EXCEPT !.pc = "answered"]
                              [] Persists(status) /\ mw.kind = "cookie" -> CookieAfter(x, Modified(c, op), data)
                              [] Persists(status) /\ mw.kind = "server" -> After(x, op, data, Modified(c, op))]
    /\ UNCHANGED <<mw, now, entries, minted, ended, anon, jar>>

SetCookie(x, change) ==
    [x EXCEPT !.pc = "answered", !.changes = [NoChanges EXCEPT ![Main] = change]]

(* store.delete of a session that ended or is moved to a new id.           *)
Delete(c) ==
    /\ call[c].pc = "deleting"
    /\ entries' = Without(call[c].sid)
    /\ ended' = ended \cup {call[c].sid}
    /\ call' = [call EXCEPT ![c] = IF call[c].data = Empty THEN SetCookie(call[c], Gone)
                                   ELSE [call[c] EXCEPT !.pc = "writing"]]
    /\ UNCHANGED <<mw, now, minted, anon, jar>>

(* A session without an id, or one whose id is regenerated, gets a new id. *)
Write(c) ==
    /\ call[c].pc = "writing"
    /\ \E swept \in BOOLEAN : entries' = write(minted + 1, call[c].data, cookie_lifetime(call[c].data), swept)
    /\ minted' = minted + 1
    /\ anon' = IF call[c].data.user THEN anon ELSE anon \cup {minted + 1}
    /\ call' = [call EXCEPT ![c] = SetCookie(call[c], {<<minted + 1>>})]
    /\ UNCHANGED <<mw, now, ended, jar>>

(* A rewrite of an existing session goes through replace, an extension     *)
(* through touch; when the entry is gone the cookie is deleted.            *)
Rewrite(c) ==
    /\ call[c].pc \in {"replacing", "touching"} /\ mw.atomic
    /\ LET s == call[c].sid
           age == cookie_lifetime(call[c].data)
       IN
       /\ \E swept \in BOOLEAN :
             entries' = IF call[c].pc = "touching" THEN touch(s, age)
                        ELSE replace(s, call[c].data, age, swept)
       /\ anon' = IF Live(s) /\ ~entries'[s].data.user THEN anon \cup {s} ELSE anon
       /\ call' = [call EXCEPT ![c] = SetCookie(call[c], IF Live(s) THEN {<<s>>} ELSE Gone)]
    /\ UNCHANGED <<mw, now, minted, ended, jar>>

(* The base class replaces, and touches, in two calls: a read, then a      *)
(* write, of the call's session or of the payload the read gave.           *)
BaseRead(c) ==
    /\ call[c].pc \in {"replacing", "touching"} /\ ~mw.atomic
    /\ LET s == call[c].sid
           payload == IF call[c].pc = "touching" THEN entries[s].data ELSE call[c].data
       IN  call' = [call EXCEPT ![c] =
                       IF Live(s) THEN [call[c] EXCEPT !.pc = "overwriting", !.payload = payload]
                       ELSE SetCookie(call[c], Gone)]
    /\ UNCHANGED <<mw, now, entries, minted, ended, anon, jar>>

BaseWrite(c) ==
    /\ call[c].pc = "overwriting"
    /\ entries' = write(call[c].sid, call[c].payload, cookie_lifetime(call[c].data), FALSE)
    /\ call' = [call EXCEPT ![c] = SetCookie(call[c], {<<call[c].sid>>})]
    /\ UNCHANGED <<mw, now, minted, ended, anon, jar>>

(* _apply_set_cookie_to_jar: every cookie of one answer at once.           *)
Applied(changes) ==
    [n \in Names |-> IF changes[n] = {} THEN jar[n] ELSE CHOOSE v \in changes[n] : TRUE]

(* _follow_redirects: the next hop is sent with the jar as it now is; a    *)
(* call that is still redirected after max_redirects raises.               *)
NextHop(x, cookies) ==
    CASE x.status # "redirect" -> [Idle(x.by) EXCEPT !.pc = "done"]
      [] x.status = "redirect" /\ x.hop < MaxRedirects ->
             [Idle(x.by) EXCEPT !.pc = "sent", !.hop = x.hop + 1, !.cookies = cookies]
      [] OTHER -> [Idle(x.by) EXCEPT !.pc = "raised"]

Receive(c) ==
    /\ call[c].pc = "answered"
    /\ jar' = Applied(call[c].changes)
    /\ call' = [call EXCEPT ![c] = NextHop(call[c], jar')]
    /\ UNCHANGED <<mw, now, entries, minted, ended, anon>>

(* TestClient.session_transaction: the whole cookie is decoded and seeded, *)
(* whatever chunks the jar holds; it runs between the client's calls.      *)
session_transaction ==
    /\ mw.kind = "cookie" /\ \A c \in Calls : call[c].pc \in {"idle", "done", "raised"}
    /\ jar' = [jar EXCEPT ![Main] =
                  Signed(<<"test">>, AfterOp(decode_cookie(jar[Main]), "put", 1, FALSE))]
    /\ UNCHANGED <<mw, now, entries, minted, ended, anon, call>>

Tick == now < MaxNow /\ now' = now + 1 /\ UNCHANGED <<mw, entries, minted, ended, anon, jar, call>>

Step(c) == \/ DecodeRequest(c) \/ ReadRequest(c) \/ Handle(c) \/ Delete(c) \/ Write(c)
           \/ Rewrite(c) \/ BaseRead(c) \/ BaseWrite(c) \/ Receive(c)

Next == (\E c \in Calls : Send(c) \/ Step(c)) \/ session_transaction \/ Tick

Spec == Init /\ [][Next]_vars

-----------------------------------------------------------------------------
(* An id that a logout or a login revoked never names an entry again,      *)
(* whatever requests were in flight with it (sessions.py, replace: "a      *)
(* request in flight cannot resurrect a session a concurrent delete        *)
(* removed").  The default replace of the base class, a read and a write,  *)
(* does not promise it.                                                    *)
EndedStaysEnded == mw.atomic => \A s \in ended : s \notin DOMAIN entries

(* What a login puts in a session is never kept under an id that was       *)
(* handed out before the login (regenerate_id).                            *)
LoginMovesId == \A s \in DOMAIN entries : entries[s].data.user => s \notin anon

(* Whatever order the answers of concurrent requests arrive in, the jar    *)
(* holds no mixture of two sessions' chunks: what the server reads of it   *)
(* is one signed value, complete, or nothing.                              *)
JarIsOneSession ==
    LET value == CookieValue(jar) IN
    mw.kind = "cookie" /\ value # None => Loads(value, MaxNow)

----------------------------------------------------------------------------
(* For TLC: the calls are interchangeable.                                 *)
Symmetry == Permutations(Calls)
=============================================================================
