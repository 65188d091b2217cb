----------------------------- MODULE Credentials -----------------------------
(***************************************************************************)
(* Credentials: how the security schemes read the Authorization header,    *)
(* when encode_jwt / decode_jwt accept a token, and what becomes of a      *)
(* stored password verifier over logins and changes of the cost settings.  *)
(* Cryptography is taken at its word: a signature tells the key and the    *)
(* algorithm it was made with, a derived key tells the password.           *)
(***************************************************************************)
EXTENDS Integers, Sequences, SequencesExt, FiniteSets

(***************************************************************************)
(* Schemes.  A header is absent or names a scheme and carries a payload.   *)
(***************************************************************************)
Schemes == {"basic", "digest", "bearer", "apikey"}
Headers == [scheme : Schemes \cup {"none"}, payload : {"good", "bad", "blank"}]

names(s, h) == h.scheme = s

NamesAny(s, h) == h.scheme # "none"

(* What a scheme makes of a header: credentials, nothing                   *)
(* (auto_error=False), or a 401 with or without a challenge.  Nothing that *)
(* is its own:                                                             *)
refuse_missing(auto_error, answer) == IF auto_error THEN answer ELSE "nothing"

(* HTTPBasic: a payload that does not decode is refused either way, and    *)
(* without a realm there is no challenge.                                  *)
HTTPBasic(auto_error, realm, h) ==
    LET challenge == IF realm THEN "challenge" ELSE "refusal" IN
    CASE ~names("basic", h) -> refuse_missing(auto_error, challenge)
      [] names("basic", h) /\ h.payload # "good" -> challenge
      [] OTHER -> "credentials"

(* HTTPDigest: its fields are taken as they come.                          *)
HTTPDigest(auto_error, h) ==
    IF names("digest", h) THEN "credentials" ELSE refuse_missing(auto_error, "challenge")

(* HTTPBearer, OAuth2PasswordBearer, OpenIdConnect: a blank token is none. *)
extract_bearer_token(auto_error, h) ==
    IF names("bearer", h) /\ h.payload # "blank" THEN "credentials"
    ELSE refuse_missing(auto_error, "challenge")

(* APIKeyHeader, APIKeyQuery, APIKeyCookie: so is a blank key.             *)
extract_api_key(auto_error, h) ==
    IF names("apikey", h) /\ h.payload # "blank" THEN "credentials"
    ELSE refuse_missing(auto_error, "challenge")

resolve(s, auto_error, realm, h) ==
    CASE s = "basic" -> HTTPBasic(auto_error, realm, h)
      [] s = "digest" -> HTTPDigest(auto_error, h)
      [] s = "bearer" -> extract_bearer_token(auto_error, h)
      [] s = "apikey" -> extract_api_key(auto_error, h)

SchemeCases == [schemes : SUBSET Schemes, h : Headers, realm : BOOLEAN]

(* The two ways to require grant_type=password: the Form pattern, searched *)
(* for with a `$` that also matches before a final newline, and            *)
(* OAuth2PasswordRequestFormStrict.from_request.                           *)
GrantTypes == {"missing", "password", "password and newline", "other"}
strict_by_form(g) == g \in {"password", "password and newline"}
strict_from_request(g) == g = "password"

(***************************************************************************)
(* The identity a session carries (security/session.py).  A session holds  *)
(* a subject, scopes and per-user claims; so does a principal.             *)
(***************************************************************************)
Nobody == [subject |-> "nobody", scopes |-> {}, claims |-> {}]
Logins == [op : {"login"}, subject : {"ann", "bob"}, scopes : SUBSET {"read"}, claims : SUBSET {"tenant", "theme"}]
Logout == [op |-> "logout", subject |-> "nobody", scopes |-> {}, claims |-> {}]

(* login_session writes the slots it has a value for, and pops the scopes  *)
(* otherwise; a claim is kept with whose it is.                            *)
ScopesLeft(session, l) == IF l.scopes = {} THEN session.scopes ELSE l.scopes

scopes_after(session, l) == l.scopes

login_session(session, l) ==
    [subject |-> l.subject, scopes |-> scopes_after(session, l),
     claims |-> {c \in session.claims : c.name \notin l.claims} \cup [name : l.claims, of : {l.subject}]]

logout_session(session) == Nobody

(* The principal set in the request that logs in, and the one SessionAuth  *)
(* finds in the next request (default loader).                             *)
published(l) == [subject |-> l.subject, scopes |-> l.scopes, claims |-> [name : l.claims, of : {l.subject}]]
SessionAuth(session) == [subject |-> session.subject, scopes |-> session.scopes, claims |-> {}]

After(session, l) == IF l.op = "login" THEN login_session(session, l) ELSE logout_session(session)
IdentityCases == BoundedSeq(Logins \cup {Logout}, 3) \ {<<>>}
Session(ops) == FoldLeft(After, Nobody, ops)

(***************************************************************************)
(* Tokens.                                                                 *)
(***************************************************************************)
_ALGORITHMS == {"HS256", "HS512"}
Times == 0 .. 4
Claims == [exp : {{}} \cup {{t} : t \in Times}, nbf : {{}} \cup {{t} : t \in Times},
           aud : SUBSET {"us", "them"}]

encode_jwt(claims, key, alg) == [alg |-> alg, key |-> key, claims |-> claims]

ExpiredAfter(claims, leeway, now) == \E e \in claims.exp : e < now - leeway

(* _validate_claims: not yet, no longer, not for us.                       *)
expired(claims, leeway, now) == \E e \in claims.exp : e <= now - leeway

_validate_claims(claims, leeway, now) ==
    /\ ~expired(claims, leeway, now)
    /\ ~\E n \in claims.nbf : n > now + leeway
    /\ "us" \in claims.aud

decode_jwt(token, secret, algorithms, leeway, now) ==
    /\ token.alg # "none" /\ token.alg \in algorithms /\ token.alg \in _ALGORITHMS
    /\ token.key = secret
    /\ _validate_claims(token.claims, leeway, now)

TokenCases == [claims : Claims, key : {"ours", "other"}, alg : _ALGORITHMS \cup {"none"},
               algorithms : {{"HS256"}, {"HS256", "HS512"}}, leeway : 0 .. 2]

(***************************************************************************)
(* Password verifiers.                                                     *)
(***************************************************************************)
SCRYPT_N == 2^15
SCRYPT_R == 8
SCRYPT_P == 1
MIN_SCRYPT_N == 2^14
MAX_SCRYPT_N == 2^20
MAX_SCRYPT_R == 32
MAX_SCRYPT_P == 16
PBKDF2_ITERATIONS == 600000
MIN_PBKDF2_ITERATIONS == 100000
MAX_PBKDF2_ITERATIONS == 100000000

(* hash_password with the default costs.                                   *)
hash_password(password, method) ==
    IF method = "scrypt"
    THEN [method |-> method, n |-> SCRYPT_N, r |-> SCRYPT_R, p |-> SCRYPT_P, of |-> password]
    ELSE [method |-> method, n |-> PBKDF2_ITERATIONS, r |-> 0, p |-> 0, of |-> password]

(* hashlib.scrypt refuses a maxmem of 2^31 - 1 bytes or more, and          *)
(* verify_password asks for 256 * n * r * p: a ValueError, hence FALSE.    *)
scrypt_runs(v) == v.n * v.r * v.p < 2^23

verify_password(v, candidate) ==
    /\ v.of = candidate
    /\ IF v.method = "scrypt"
       THEN /\ v.n \in MIN_SCRYPT_N .. MAX_SCRYPT_N
            /\ v.r \in 1 .. MAX_SCRYPT_R
            /\ v.p \in 1 .. MAX_SCRYPT_P
            /\ scrypt_runs(v)
       ELSE v.n \in MIN_PBKDF2_ITERATIONS .. MAX_PBKDF2_ITERATIONS

RehashAtDefaults(v) ==
    v.method = "scrypt" => v.n <= SCRYPT_N \/ v.r < SCRYPT_R \/ v.p < SCRYPT_P

needs_rehash(v) ==
    v.method = "scrypt" => v.n < SCRYPT_N \/ v.r < SCRYPT_R \/ v.p < SCRYPT_P

(* A login as verify_and_needs_update documents it: the verifier after it. *)
login(v, candidate, method) ==
    IF verify_password(v, candidate) /\ needs_rehash(v)
    THEN hash_password(candidate, method) ELSE v

Verifiers ==
    [method : {"scrypt"}, n : {2^13, 2^14, 2^15, 2^16, 2^20}, r : {1, 7, 8, 32},
     p : {1, 2, 16}, of : {"mine", "other"}]
    \cup [method : {"pbkdf2:sha256"}, n : {99999, 100000, 600000}, r : {0}, p : {0},
          of : {"mine", "other"}]

----------------------------------------------------------------------------
(* Optional schemes can be offered side by side: a well-formed header is   *)
(* taken by the one scheme it names, and the others resolve to nothing.    *)
AlternativesCompose(c) ==
    \A s \in c.schemes :
        LET got == resolve(s, FALSE, c.realm, c.h) IN
        c.h.payload = "good" =>
            got = (IF s = c.h.scheme THEN "credentials" ELSE "nothing")

(* A 401 says how to authenticate: not the one of HTTPBasic without realm. *)
RefusalsChallenge(c) ==
    \A s \in c.schemes, auto \in BOOLEAN : resolve(s, auto, c.realm, c.h) # "refusal"

(* Both forms of the strict grant type accept the same requests.           *)
StrictFormsAgree(g) == strict_by_form(g) = strict_from_request(g)

(* security/session.py: whoever logged in last is who the next request is  *)
(* made as, with the scopes of that login and of no login before it.       *)
LastLoginCounts(ops) ==
    LET last == ops[Len(ops)]
        now == SessionAuth(Session(ops))
    IN  now.subject = last.subject /\ now.scopes = last.scopes

(* What the principal says does not depend on which request asks.  Not     *)
(* kept: the claims of login_session are there in its own request only.    *)
PrincipalIsKept(ops) ==
    LET last == ops[Len(ops)] IN last.op = "login" => SessionAuth(Session(ops)) = published(last)

(* session.py:178: "leftover per-user state on a session that has changed  *)
(* hands is a data leak".  Not kept by a login over another's session.     *)
NothingOfAnother(ops) == \A c \in Session(ops).claims : c.of = Session(ops).subject

(* A token of ours is good exactly from nbf - leeway to just before        *)
(* exp + leeway, for its audience and a permitted algorithm; a token       *)
(* signed with another key, or unsigned, never is.                         *)
TokensLiveTheirLife(c) ==
    LET token == encode_jwt(c.claims, c.key, c.alg)
        life == {t \in Times : /\ \A e \in c.claims.exp : t < e + c.leeway
                               /\ \A n \in c.claims.nbf : n - c.leeway <= t}
        good == {t \in Times : decode_jwt(token, "ours", c.algorithms, c.leeway, t)}
    IN good = IF c.key = "ours" /\ c.alg \in c.algorithms /\ "us" \in c.claims.aud
              THEN life ELSE {}

(* Logging in settles: one login with the documented recipe leaves a       *)
(* verifier that accepts the same passwords and needs no second upgrade.   *)
RehashSettles(v) ==
    LET after == login(v, "mine", "scrypt") IN
    /\ verify_password(v, "mine") =>
          /\ verify_password(after, "mine") /\ ~verify_password(after, "other")
          /\ ~needs_rehash(after)
          /\ login(after, "mine", "scrypt") = after
    /\ ~verify_password(v, "mine") => after = v

(* An upgrade never lowers a cost: one cost below its default brings the   *)
(* others down to theirs.                                                  *)
RehashNeverWeakens(v) ==
    LET after == login(v, "mine", "scrypt") IN
    v.method = "scrypt" => after.n >= v.n /\ after.r >= v.r /\ after.p >= v.p

(* Costs within the published bounds are accepted: from n*r*p = 2^23 on    *)
(* the derivation cannot run, 2^20 at r = 8 and p = 1 included.            *)
BoundsAreUsable(v) ==
    ( /\ v.method = "scrypt" /\ v.of = "mine"
      /\ v.n \in MIN_SCRYPT_N .. MAX_SCRYPT_N /\ v.r = SCRYPT_R /\ v.p = SCRYPT_P )
    => verify_password(v, "mine")
============================================================================
