----------------------------- MODULE OAuthGrants -----------------------------
(***************************************************************************)
(* The grants of the MCP authorization server                              *)
(* (contrib/mcp/authorization.py): a code is exchanged for an access and a *)
(* refresh token, a refresh rotates both within one family, and a refresh  *)
(* token that comes back ends its family.                                  *)
(***************************************************************************)
EXTENDS Integers, FiniteSets

CONSTANTS
    Clients,                        \* registered clients
    Refreshing,                     \* those registered for refresh_token
    Codes,                          \* authorization codes
    Calls,                          \* calls of the token endpoint
    MaxTokens,                      \* bound: pairs of tokens issued
    Stores                          \* whether a store may let others run: {FALSE}
                                    \* the one in memory, {TRUE} a remote one

\* What the constants have to satisfy.
GrantsAssumption == Refreshing \subseteq Clients /\ MaxTokens \in Nat /\ Stores \subseteq BOOLEAN

VARIABLES
    code,                           \* Codes -> [at, client]
    tokens,                         \* _tokens, each with its refresh token
    spent,                          \* _spent: [refresh, family]
    call,                           \* Calls -> what a grant is about to issue
    issued,                         \* pairs issued so far
    taken,                          \* history: refresh tokens taken, with their family
    exchanged,                      \* history: [code, family]
    replayed,                       \* history: families of which one came back
    suspends                        \* which store this is

vars == <<code, tokens, spent, call, issued, taken, exchanged, replayed, suspends>>

Nobody == "nobody"
Pair(n, client, family) == [id |-> n, client |-> client, family |-> family, expired |-> FALSE]
Nothing == Pair(0, Nobody, 0)

Init ==
    /\ code = [c \in Codes |-> [at |-> "unissued", client |-> Nobody]]
    /\ tokens = {} /\ spent = {} /\ taken = {} /\ exchanged = {} /\ replayed = {}
    /\ call = [q \in Calls |-> Nothing]
    /\ issued = 0
    /\ suspends \in Stores

(* _handle_authorize, after the client, its redirect and the user agreed.  *)
Authorize(c, client) ==
    /\ code[c].at = "unissued"
    /\ code' = [code EXCEPT ![c] = [at |-> "live", client |-> client]]
    /\ UNCHANGED <<tokens, spent, call, issued, taken, exchanged, replayed, suspends>>

CodeExpires(c) ==
    /\ code[c].at = "live"
    /\ code' = [code EXCEPT ![c].at = "expired"]
    /\ UNCHANGED <<tokens, spent, call, issued, taken, exchanged, replayed, suspends>>

(* _issue: the pair is stored at once, or when the store gets to it.  An   *)
(* exchange begins a family, named here by its first pair.                 *)
Issue(q, client, family, others) ==
    LET pair == Pair(issued + 1, client, IF family = 0 THEN issued + 1 ELSE family)
    IN  /\ issued < MaxTokens
        /\ issued' = issued + 1
        /\ tokens' = IF suspends THEN others ELSE others \cup {pair}
        /\ call' = IF suspends THEN [call EXCEPT ![q] = pair] ELSE call

Save(q) ==
    /\ call[q] # Nothing
    /\ tokens' = tokens \cup {call[q]}
    /\ call' = [call EXCEPT ![q] = Nothing]
    /\ UNCHANGED <<code, spent, issued, taken, exchanged, replayed, suspends>>

(* _grant_authorization_code: take_code comes first, so that a code is     *)
(* used up by whoever presents it, an attempt that fails included.         *)
CodeKept(c) == code

code_taken(c) == [code EXCEPT ![c].at = "taken"]

Exchange(q, c, client, proof) ==
    /\ call[q] = Nothing /\ code[c].at # "unissued"
    /\ code' = IF code[c].at = "taken" THEN code ELSE code_taken(c)
    /\ IF code[c].at = "live" /\ code[c].client = client /\ proof
       THEN /\ Issue(q, client, 0, tokens)
            /\ exchanged' = exchanged \cup {[code |-> c, family |-> issued + 1]}
       ELSE UNCHANGED <<call, issued, tokens, exchanged>>
    /\ UNCHANGED <<spent, taken, replayed, suspends>>

(* revoke_family.                                                          *)
TokensOf(family) == {t \in tokens : t.family = family}
Revoke(family) ==
    /\ tokens' = tokens \ TokensOf(family)
    /\ spent' = {s \in spent : s.family # family}

(* _grant_refresh_token.  take_refresh removes the pair and remembers the  *)
(* token; one that was taken before is a replay.                           *)
Forgotten(t) == spent

remembered(t) == spent \cup {[refresh |-> t.id, family |-> t.family]}

Rotate(q, t, client) ==
    /\ call[q] = Nothing /\ client \in Refreshing
    /\ taken' = taken \cup {[refresh |-> t.id, family |-> t.family]}
    /\ UNCHANGED <<code, exchanged, replayed, suspends>>
    /\ IF t.client = client
       THEN Issue(q, client, t.family, tokens \ {t}) /\ spent' = remembered(t)
       ELSE /\ tokens' = tokens \ TokensOf(t.family)
            /\ spent' = {s \in spent : s.family # t.family}
            /\ UNCHANGED <<call, issued>>

Replay(client) == \E s \in taken :
    /\ client \in Refreshing
    /\ replayed' = replayed \cup {s.family}
    /\ IF s \in spent THEN Revoke(s.family) ELSE UNCHANGED <<tokens, spent>>
    /\ UNCHANGED <<code, call, issued, taken, exchanged, suspends>>

(* access_token_ttl goes by; the verifier drops what it finds expired, and *)
(* delete_token its refresh token with it.                                 *)
TokenExpires(t) ==
    /\ ~t.expired
    /\ tokens' = (tokens \ {t}) \cup {[t EXCEPT !.expired = TRUE]}
    /\ UNCHANGED <<code, spent, call, issued, taken, exchanged, replayed, suspends>>

VerifyExpired(t) ==
    /\ t.expired
    /\ tokens' = tokens \ {t}
    /\ UNCHANGED <<code, spent, call, issued, taken, exchanged, replayed, suspends>>

Next ==
    \/ \E c \in Codes, client \in Clients : Authorize(c, client)
    \/ \E c \in Codes : CodeExpires(c)
    \/ \E q \in Calls : Save(q)
    \/ \E q \in Calls, c \in Codes, client \in Clients, proof \in BOOLEAN : Exchange(q, c, client, proof)
    \/ \E q \in Calls, t \in tokens, client \in Clients : Rotate(q, t, client)
    \/ \E client \in Clients : Replay(client)
    \/ \E t \in tokens : TokenExpires(t) \/ VerifyExpired(t)

Spec == Init /\ [][Next]_vars

-----------------------------------------------------------------------------
Held == (tokens \cup {call[q] : q \in Calls}) \ {Nothing}

(* authorization.py: a code buys one family, and of a family one refresh   *)
(* token can still be used, however the calls are mixed.                   *)
GrantsWorkOnce ==
    /\ \A e, f \in exchanged : e.code = f.code => e = f
    /\ \A s, t \in Held : s.family = t.family => s = t
    /\ \A s \in taken, t \in Held : s.refresh # t.id

(* authorization.py:719-735: when a refresh token comes back, no token of  *)
(* its family is good any more.                                            *)
ReplayEndsFamily == ~suspends => \A t \in tokens : t.family \notin replayed

(* Not kept with a store that suspends: a rotation under way when the      *)
(* family is revoked saves its pair afterwards.                            *)
ReplayEndsAlways == \A t \in tokens : t.family \notin replayed

(* mcp.md:1915: /token "refreshes it later".  Not kept: one call made with *)
(* the expired access token removes the refresh token as well.             *)
RefreshOutlivesAccess ==
    [][\A t \in tokens : t \notin tokens' => \/ t.family \in replayed'
                                             \/ \E s \in taken' : s.refresh = t.id
                                             \/ [t EXCEPT !.expired = TRUE] \in tokens']_vars
=============================================================================
