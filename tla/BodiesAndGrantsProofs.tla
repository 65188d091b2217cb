----------------------- MODULE BodiesAndGrantsProofs -----------------------
(***************************************************************************)
(* Proofs about the parts of MCServices that a request goes through: the   *)
(* token endpoint, the ASGI adapter and the readers of a body, for every   *)
(* value of their constants.                                               *)
(***************************************************************************)
EXTENDS MCServices, FiniteSetTheorems, SequenceTheorems, TLAPS

-----------------------------------------------------------------------------
(* The token endpoint: code, tokens, spent, call, issued, taken, exchanged, *)
(* replayed and suspends are s1 to s9.                                      *)

\* A pair somebody has been given, or is about to be.
Pairs == {t \in [id : Nat, client : Clients \cup {Auth!Nobody}, family : Nat, expired : BOOLEAN] :
             t.id \in 1 .. s5 /\ t.family \in 1 .. s5}

GrantTypes ==
    /\ s5 \in Nat
    /\ DOMAIN s1 = Codes /\ DOMAIN s4 = TokenCalls
    /\ s2 \subseteq Pairs /\ \A q \in TokenCalls : s4[q] \in Pairs \cup {Auth!Nothing}
    /\ \A s \in s6 : s.refresh \in 1 .. s5 /\ s.family \in 1 .. s5
    /\ \A e \in s7 : e.code \in Codes /\ e.family \in 1 .. s5
    /\ \A f \in s8 : f \in 1 .. s5

\* A code that was exchanged is used up, and bought one family.
CodesUsedUp ==
    /\ \A e \in s7 : s1[e.code].at = "taken"
    /\ \A e, f \in s7 : e.code = f.code => e = f

\* Of a family there is one pair, in the store or on its way there, and the
\* number of a pair tells its family.
OneOfAFamily ==
    /\ \A s, t \in s2 : s.family = t.family => s = t
    /\ \A q \in TokenCalls : s4[q] # Auth!Nothing =>
         /\ \A t \in s2 : s4[q].family # t.family /\ s4[q].id # t.id
         /\ \A r \in TokenCalls : s4[r] # Auth!Nothing /\ r # q =>
               s4[q].family # s4[r].family /\ s4[q].id # s4[r].id
    /\ \A s, t \in s2 : s.id = t.id => s = t

\* A token that was taken is nobody's any more.
TakenIsGone ==
    /\ \A s \in s6, t \in s2 : s.refresh # t.id
    /\ \A s \in s6, q \in TokenCalls : s.refresh # s4[q].id

\* With a store in memory a pair is saved as it is issued, and what was taken
\* is remembered for as long as its family has a token.
Remembered ==
    /\ \A q \in TokenCalls : s4[q] = Auth!Nothing
    /\ \A s \in s6 : s \in s3 \/ \A t \in s2 : t.family # s.family
    /\ \A t \in s2 : t.family \notin s8

GrantsInv == /\ GrantTypes /\ CodesUsedUp /\ OneOfAFamily /\ TakenIsGone
             /\ ~s9 => Remembered

-----------------------------------------------------------------------------
LEMMA GrantsInit == Auth!Init => GrantsInv
<1>1. SUFFICES ASSUME Auth!Init PROVE GrantsInv
    OBVIOUS
<1>2. GrantTypes
    BY <1>1 DEF Auth!Init, GrantTypes
<1>3. CodesUsedUp /\ OneOfAFamily
    BY <1>1 DEF Auth!Init, CodesUsedUp, OneOfAFamily
<1>4. TakenIsGone /\ Remembered
    BY <1>1 DEF Auth!Init, TakenIsGone, Remembered
<1> QED
    BY <1>2, <1>3, <1>4 DEF GrantsInv

\* No pair is Nothing: pairs are numbered from one.
LEMMA PairsAreSomething ==
    ASSUME NEW t \in Pairs
    PROVE  t # Auth!Nothing /\ t.id \in Nat /\ t.family \in Nat /\ t.id > 0 /\ t.family > 0
BY DEF Pairs, Auth!Nothing, Auth!Pair

\* What issuing a pair of a family does, if no other pair of the family is
\* held and what is kept in the store was there before.
LEMMA IssueKeeps ==
    ASSUME GrantsInv, NEW q \in TokenCalls, s4[q] = Auth!Nothing,
           NEW client \in Clients, NEW family \in 0 .. s5, NEW others, others \subseteq s2,
           Auth!Issue(q, client, family, others),
           family # 0 => /\ \A t \in others : t.family # family
                         /\ \A r \in TokenCalls : s4[r] # Auth!Nothing => s4[r].family # family,
           s6' = s6 \/ \E s : /\ s6' = s6 \cup {s} /\ s.refresh \in 1 .. s5 /\ s.family \in 1 .. s5
                              /\ \A t \in others : t.id # s.refresh
                              /\ \A r \in TokenCalls : s4[r].id # s.refresh,
           UNCHANGED s9
    PROVE  /\ s5' = s5 + 1 /\ DOMAIN s4' = TokenCalls
           /\ s2' \subseteq Pairs' /\ \A r \in TokenCalls : s4'[r] \in Pairs' \cup {Auth!Nothing}
           /\ OneOfAFamily' /\ TakenIsGone'
           /\ \A t \in s2' : t \in others \/ (t.family = IF family = 0 THEN s5 + 1 ELSE family)
           /\ ~s9 => \A r \in TokenCalls : s4'[r] = Auth!Nothing
<1> DEFINE pair == Auth!Pair(s5 + 1, client, IF family = 0 THEN s5 + 1 ELSE family)
<1>1. s5 \in Nat /\ s5' = s5 + 1 /\ DOMAIN s4 = TokenCalls
    BY DEF GrantsInv, GrantTypes, Auth!Issue
<1>2. Pairs \subseteq Pairs' /\ pair \in Pairs'
    BY <1>1 DEF Pairs, Auth!Pair
<1>3. pair.id = s5 + 1 /\ pair # Auth!Nothing /\ pair.family = IF family = 0 THEN s5 + 1 ELSE family
    BY <1>1 DEF Auth!Pair, Auth!Nothing
<1>4. \/ s9 /\ s2' = others /\ s4' = [s4 EXCEPT ![q] = pair]
      \/ ~s9 /\ s2' = others \cup {pair} /\ s4' = s4
    BY DEF Auth!Issue
<1>5. /\ \A t \in s2 : t.id \in 1 .. s5 /\ t.family \in 1 .. s5
      /\ \A r \in TokenCalls : s4[r] # Auth!Nothing => s4[r].id \in 1 .. s5 /\ s4[r].family \in 1 .. s5
      /\ \A s \in s6 : s.refresh \in 1 .. s5
      /\ Auth!Nothing.id = 0
    BY DEF GrantsInv, GrantTypes, Pairs, Auth!Nothing, Auth!Pair
<1> HIDE DEF pair
<1>6. /\ \A t \in others : t.family # pair.family /\ t.id # pair.id
      /\ \A r \in TokenCalls : s4[r] # Auth!Nothing => s4[r].family # pair.family /\ s4[r].id # pair.id
    <2>1. \A f \in 1 .. s5 : f # s5 + 1
        BY <1>1
    <2>2. CASE family = 0
        BY <1>3, <1>5, <2>1, <2>2
    <2>3. CASE family # 0
        BY <1>3, <1>5, <2>1, <2>3
    <2> QED
        BY <2>2, <2>3
<1>7. \A r \in TokenCalls : s4'[r] = s4[r] \/ (r = q /\ s4'[r] = pair /\ s9)
    BY <1>1, <1>4
<1>8. \A t \in s2' : t \in others \/ (t = pair /\ ~s9)
    BY <1>4
<1>9. OneOfAFamily'
    <2>1. \A s, t \in s2' : s.family = t.family \/ s.id = t.id => s = t
        BY <1>6, <1>8 DEF GrantsInv, OneOfAFamily
    <2>2. ASSUME NEW r \in TokenCalls, s4'[r] # Auth!Nothing, NEW t \in s2'
          PROVE  s4'[r].family # t.family /\ s4'[r].id # t.id
        BY <1>6, <1>7, <1>8, <2>2 DEF GrantsInv, OneOfAFamily
    <2>3. ASSUME NEW r \in TokenCalls, NEW u \in TokenCalls, s4'[r] # Auth!Nothing,
                 s4'[u] # Auth!Nothing, r # u
          PROVE  s4'[r].family # s4'[u].family /\ s4'[r].id # s4'[u].id
        BY <1>6, <1>7, <2>3 DEF GrantsInv, OneOfAFamily
    <2> QED
        BY <2>1, <2>2, <2>3 DEF OneOfAFamily
<1>10. TakenIsGone'
    <2>1. \A s \in s6 : s.refresh # pair.id
        BY <1>1, <1>3, <1>5
    <2>2. CASE s6' = s6
        BY <1>7, <1>8, <2>1, <2>2 DEF GrantsInv, TakenIsGone
    <2>3. ASSUME NEW s, s6' = s6 \cup {s}, s.refresh \in 1 .. s5,
                 \A t \in others : t.id # s.refresh, \A r \in TokenCalls : s4[r].id # s.refresh
          PROVE  TakenIsGone'
        <3>1. s.refresh # pair.id
            BY <1>1, <1>3, <2>3
        <3> QED
            BY <1>7, <1>8, <2>1, <2>3, <3>1 DEF GrantsInv, TakenIsGone
    <2> QED
        BY <2>2, <2>3
<1>11. s2' \subseteq Pairs' /\ \A r \in TokenCalls : s4'[r] \in Pairs' \cup {Auth!Nothing}
    BY <1>2, <1>7, <1>8 DEF GrantsInv, GrantTypes
<1>12. ~s9 => \A r \in TokenCalls : s4'[r] = Auth!Nothing
    BY <1>4 DEF GrantsInv, Remembered
<1>13. DOMAIN s4' = TokenCalls
    BY <1>1, <1>4
<1> QED
    BY <1>1, <1>3, <1>8, <1>9, <1>10, <1>11, <1>12, <1>13

\* What is only removed, marked as expired or put where it was going leaves
\* every family with one pair.
LEMMA SaveStep ==
    ASSUME GrantsInv, NEW q \in TokenCalls, Auth!Save(q)
    PROVE  GrantsInv'
<1>1. /\ s4[q] # Auth!Nothing /\ s2' = s2 \cup {s4[q]} /\ s4' = [s4 EXCEPT ![q] = Auth!Nothing]
      /\ UNCHANGED <<s1, s3, s5, s6, s7, s8, s9>>
    BY DEF Auth!Save
<1>2. /\ s4[q] \in Pairs /\ \A r \in TokenCalls : s4'[r] = IF r = q THEN Auth!Nothing ELSE s4[r]
      /\ Pairs' = Pairs /\ DOMAIN s4' = TokenCalls
    BY <1>1 DEF GrantsInv, GrantTypes, Pairs
<1>3. GrantTypes'
    BY <1>1, <1>2 DEF GrantsInv, GrantTypes
<1>4. CodesUsedUp'
    BY <1>1 DEF GrantsInv, CodesUsedUp
<1>5. OneOfAFamily'
    BY <1>1, <1>2 DEF GrantsInv, OneOfAFamily
<1>6. TakenIsGone'
    <2>1. \A s \in s6 : s.refresh # Auth!Nothing.id
        BY DEF GrantsInv, GrantTypes, Auth!Nothing, Auth!Pair
    <2> QED
        BY <1>1, <1>2, <2>1 DEF GrantsInv, TakenIsGone
<1>7. s9
    BY <1>1 DEF GrantsInv, Remembered
<1> QED
    BY <1>1, <1>3, <1>4, <1>5, <1>6, <1>7 DEF GrantsInv

LEMMA ExchangeStep ==
    ASSUME GrantsInv, NEW q \in TokenCalls, NEW c \in Codes, NEW client \in Clients,
           NEW proof \in BOOLEAN, Auth!Exchange(q, c, client, proof)
    PROVE  GrantsInv'
<1>1. /\ s4[q] = Auth!Nothing /\ UNCHANGED <<s3, s6, s8, s9>>
      /\ s1' = IF s1[c].at = "taken" THEN s1 ELSE [s1 EXCEPT ![c].at = "taken"]
    BY DEF Auth!Exchange, Auth!code_taken
<1>2. /\ DOMAIN s1 = Codes /\ DOMAIN s1' = Codes /\ s1'[c].at = "taken"
      /\ \A d \in Codes : s1[d].at = "taken" => s1'[d].at = "taken"
    BY <1>1 DEF GrantsInv, GrantTypes
<1>3. CASE UNCHANGED <<s2, s4, s5, s7>>
    <2>1. GrantTypes'
        BY <1>1, <1>2, <1>3 DEF GrantsInv, GrantTypes, Pairs
    <2>2. CodesUsedUp'
        BY <1>2, <1>3 DEF GrantsInv, GrantTypes, CodesUsedUp
    <2>3. OneOfAFamily' /\ TakenIsGone'
        BY <1>1, <1>3 DEF GrantsInv, OneOfAFamily, TakenIsGone
    <2>4. Remembered => Remembered'
        BY <1>1, <1>3 DEF Remembered
    <2> QED
        BY <1>1, <2>1, <2>2, <2>3, <2>4 DEF GrantsInv
<1>4. CASE /\ s1[c].at = "live" /\ Auth!Issue(q, client, 0, s2)
           /\ s7' = s7 \cup {[code |-> c, family |-> s5 + 1]}
    <2>1. s5 \in Nat /\ 0 \in 0 .. s5
        BY DEF GrantsInv, GrantTypes
    <2>2. /\ s5' = s5 + 1 /\ DOMAIN s4' = TokenCalls
          /\ s2' \subseteq Pairs' /\ \A r \in TokenCalls : s4'[r] \in Pairs' \cup {Auth!Nothing}
          /\ OneOfAFamily' /\ TakenIsGone'
          /\ \A t \in s2' : t \in s2 \/ t.family = s5 + 1
          /\ ~s9 => \A r \in TokenCalls : s4'[r] = Auth!Nothing
        BY <1>1, <1>4, <2>1, IssueKeeps
    <2>3. GrantTypes'
        BY <1>1, <1>2, <1>4, <2>1, <2>2 DEF GrantsInv, GrantTypes
    <2>4. CodesUsedUp'
        <3>1. \A e \in s7 : e.code # c
            BY <1>4 DEF GrantsInv, CodesUsedUp
        <3>2. \A e \in s7' : e \in s7 \/ (e.code = c /\ e = [code |-> c, family |-> s5 + 1])
            BY <1>4
        <3> QED
            BY <1>2, <3>1, <3>2 DEF GrantsInv, GrantTypes, CodesUsedUp
    <2>5. ~s9 => Remembered'
        <3>1. SUFFICES ASSUME ~s9 PROVE Remembered'
            OBVIOUS
        <3>2. \A s \in s6 : s.family # s5 + 1
            BY <2>1 DEF GrantsInv, GrantTypes
        <3>3. s5 + 1 \notin s8
            BY <2>1 DEF GrantsInv, GrantTypes
        <3> QED
            BY <1>1, <2>2, <3>1, <3>2, <3>3 DEF GrantsInv, Remembered
    <2> QED
        BY <1>1, <2>2, <2>3, <2>4, <2>5 DEF GrantsInv
<1> QED
    BY <1>3, <1>4 DEF Auth!Exchange

\* A family loses all its tokens, and nothing of it is remembered.
LEMMA FamilyEnds ==
    ASSUME GrantsInv, NEW f \in 1 .. s5,
           s2' = s2 \ Auth!TokensOf(f), s3' = {s \in s3 : s.family # f},
           UNCHANGED <<s1, s4, s5, s7, s9>>,
           s6' = s6 \/ \E s : /\ s6' = s6 \cup {s} /\ s.refresh \in 1 .. s5 /\ s.family = f
                              /\ \A t \in s2 : t.id = s.refresh => t.family = f
                              /\ \A r \in TokenCalls : s4[r].id # s.refresh,
           s8' = s8 \/ s8' = s8 \cup {f}
    PROVE  GrantsInv'
<1>1. s2' \subseteq s2 /\ \A t \in s2' : t.family # f
    BY DEF Auth!TokensOf
<1>2. GrantTypes'
    BY <1>1 DEF GrantsInv, GrantTypes, Pairs
<1>3. CodesUsedUp' /\ OneOfAFamily'
    BY <1>1 DEF GrantsInv, CodesUsedUp, OneOfAFamily
<1>4. TakenIsGone'
    BY <1>1 DEF GrantsInv, TakenIsGone
<1>5. Remembered => Remembered'
    <2>1. SUFFICES ASSUME Remembered PROVE Remembered'
        OBVIOUS
    <2>2. \A s \in s6 : s.family # f => s \in s3' \/ \A t \in s2' : t.family # s.family
        BY <1>1, <2>1 DEF Remembered
    <2>3. \A s \in s6' : s.family = f \/ s \in s6
        OBVIOUS
    <2>4. \A t \in s2' : t.family \notin s8'
        BY <1>1, <2>1 DEF Remembered
    <2> QED
        BY <1>1, <2>1, <2>2, <2>3, <2>4 DEF Remembered
<1> QED
    BY <1>2, <1>3, <1>4, <1>5 DEF GrantsInv

LEMMA RotateStep ==
    ASSUME GrantsInv, NEW q \in TokenCalls, NEW t \in s2, NEW client \in Clients,
           Auth!Rotate(q, t, client)
    PROVE  GrantsInv'
<1> DEFINE took == [refresh |-> t.id, family |-> t.family]
<1>1. /\ s4[q] = Auth!Nothing /\ s6' = s6 \cup {took}
      /\ UNCHANGED <<s1, s7, s8, s9>>
    BY DEF Auth!Rotate
<1>2. t \in Pairs /\ took.refresh \in 1 .. s5 /\ took.family = t.family /\ t.family \in 1 .. s5 /\ s5 \in Nat
    BY DEF GrantsInv, GrantTypes, Pairs
<1>3. \A r \in TokenCalls : s4[r].id # took.refresh
    <2>1. Auth!Nothing.id = 0
        BY DEF Auth!Nothing, Auth!Pair
    <2> QED
        BY <1>2, <2>1 DEF GrantsInv, OneOfAFamily
<1>4. /\ \A u \in s2 : u.id = took.refresh => u = t
      /\ \A u \in s2 : u.family = t.family => u = t
      /\ \A r \in TokenCalls : s4[r] # Auth!Nothing => s4[r].family # t.family
    BY DEF GrantsInv, OneOfAFamily
<1>5. CASE t.client = client
    <2>1. Auth!Issue(q, client, t.family, s2 \ {t}) /\ s3' = s3 \cup {took}
        BY <1>5 DEF Auth!Rotate, Auth!remembered
    <2>2. t.family \in 0 .. s5 /\ t.family # 0
        BY <1>2
    <2>3. /\ s5' = s5 + 1 /\ DOMAIN s4' = TokenCalls
          /\ s2' \subseteq Pairs' /\ \A r \in TokenCalls : s4'[r] \in Pairs' \cup {Auth!Nothing}
          /\ OneOfAFamily' /\ TakenIsGone'
          /\ \A u \in s2' : u \in s2 \ {t} \/ u.family = t.family
          /\ ~s9 => \A r \in TokenCalls : s4'[r] = Auth!Nothing
        <3> DEFINE others == s2 \ {t}
        <3>1. others \subseteq s2 /\ \A u \in others : u.family # t.family /\ u.id # took.refresh
            BY <1>4
        <3>2. \E s : /\ s6' = s6 \cup {s} /\ s.refresh \in 1 .. s5 /\ s.family \in 1 .. s5
                     /\ \A u \in others : u.id # s.refresh /\ \A r \in TokenCalls : s4[r].id # s.refresh
            BY <1>1, <1>2, <1>3, <3>1
        <3>3. Auth!Issue(q, client, t.family, others)
            BY <2>1
        <3> HIDE DEF others, took
        <3>4. /\ s5' = s5 + 1 /\ DOMAIN s4' = TokenCalls
              /\ s2' \subseteq Pairs' /\ \A r \in TokenCalls : s4'[r] \in Pairs' \cup {Auth!Nothing}
              /\ OneOfAFamily' /\ TakenIsGone'
              /\ \A u \in s2' : u \in others \/ (u.family = IF t.family = 0 THEN s5 + 1 ELSE t.family)
              /\ ~s9 => \A r \in TokenCalls : s4'[r] = Auth!Nothing
            <4>1. \E s : /\ s6' = s6 \cup {s} /\ s.refresh \in 1 .. s5 /\ s.family \in 1 .. s5
                         /\ \A u \in others : u.id # s.refresh
                         /\ \A r \in TokenCalls : s4[r].id # s.refresh
                BY <1>1, <1>2, <1>3, <3>1
            <4> QED
                BY <1>1, <1>4, <2>2, <3>1, <4>1, <3>3, IssueKeeps
        <3> QED
            BY <2>2, <3>4 DEF others
    <2>4. GrantTypes'
        BY <1>1, <1>2, <2>3 DEF GrantsInv, GrantTypes
    <2>5. CodesUsedUp'
        BY <1>1 DEF GrantsInv, CodesUsedUp
    <2>6. ~s9 => Remembered'
        <3>1. SUFFICES ASSUME ~s9 PROVE Remembered'
            OBVIOUS
        <3>2. Remembered
            BY <3>1 DEF GrantsInv
        <3>3. \A s \in s6 : s \in s3 \/ (s.family # t.family /\ \A u \in s2 : u.family # s.family)
            BY <3>2 DEF Remembered
        <3>4. \A s \in s6' : s \in s3' \/ \A u \in s2' : u.family # s.family
            BY <1>1, <2>1, <2>3, <3>3
        <3>5. \A u \in s2' : u.family \notin s8
            BY <2>3, <3>2 DEF Remembered
        <3> QED
            BY <1>1, <2>3, <3>1, <3>4, <3>5 DEF Remembered
    <2> QED
        BY <1>1, <2>3, <2>4, <2>5, <2>6 DEF GrantsInv
<1>6. CASE t.client # client
    <2>1. /\ s2' = s2 \ Auth!TokensOf(t.family) /\ s3' = {s \in s3 : s.family # t.family}
          /\ UNCHANGED <<s4, s5>>
        BY <1>6 DEF Auth!Rotate
    <2>2. \A u \in s2 : u.id = took.refresh => u.family = t.family
        BY <1>4
    <2> QED
        BY <1>1, <1>2, <1>3, <2>1, <2>2, FamilyEnds
<1> QED
    BY <1>5, <1>6

LEMMA ReplayStep ==
    ASSUME GrantsInv, NEW client \in Clients, Auth!Replay(client)
    PROVE  GrantsInv'
<1>1. PICK s \in s6 : /\ s8' = s8 \cup {s.family}
                      /\ IF s \in s3 THEN Auth!Revoke(s.family) ELSE UNCHANGED <<s2, s3>>
                      /\ UNCHANGED <<s1, s4, s5, s6, s7, s9>>
    BY DEF Auth!Replay
<1>2. s.family \in 1 .. s5
    BY DEF GrantsInv, GrantTypes
<1>3. CASE s \in s3
    BY <1>1, <1>2, <1>3, FamilyEnds DEF Auth!Revoke
<1>4. CASE s \notin s3
    <2>1. UNCHANGED <<s2, s3>>
        BY <1>1, <1>4
    <2>2. GrantTypes'
        BY <1>1, <1>2, <2>1 DEF GrantsInv, GrantTypes, Pairs
    <2>3. CodesUsedUp' /\ OneOfAFamily' /\ TakenIsGone'
        BY <1>1, <2>1 DEF GrantsInv, CodesUsedUp, OneOfAFamily, TakenIsGone
    <2>4. Remembered => Remembered'
        BY <1>1, <1>4, <2>1 DEF Remembered
    <2> QED
        BY <1>1, <2>2, <2>3, <2>4 DEF GrantsInv
<1> QED
    BY <1>3, <1>4

\* A token expires, or one that had is dropped: the others are as they were,
\* and what takes its place has its number and family.
LEMMA AgeStep ==
    ASSUME GrantsInv, NEW t \in s2, Auth!TokenExpires(t) \/ Auth!VerifyExpired(t)
    PROVE  GrantsInv'
<1>1. UNCHANGED <<s1, s3, s4, s5, s6, s7, s8, s9>>
    BY DEF Auth!TokenExpires, Auth!VerifyExpired
<1> DEFINE aged == [t EXCEPT !.expired = TRUE]
<1>2. t \in Pairs /\ aged \in Pairs /\ aged.id = t.id /\ aged.family = t.family
    BY DEF GrantsInv, GrantTypes, Pairs
<1> HIDE DEF aged
<1>3. s2' \subseteq (s2 \ {t}) \cup {aged}
    BY DEF Auth!TokenExpires, Auth!VerifyExpired, aged
<1>4. GrantTypes'
    BY <1>1, <1>2, <1>3 DEF GrantsInv, GrantTypes, Pairs
<1>5. CodesUsedUp'
    BY <1>1 DEF GrantsInv, CodesUsedUp
<1>6. OneOfAFamily'
    BY <1>1, <1>2, <1>3 DEF GrantsInv, OneOfAFamily
<1>7. TakenIsGone'
    BY <1>1, <1>2, <1>3 DEF GrantsInv, TakenIsGone
<1>8. Remembered => Remembered'
    BY <1>1, <1>2, <1>3 DEF Remembered
<1> QED
    BY <1>1, <1>4, <1>5, <1>6, <1>7, <1>8 DEF GrantsInv

\* Every step of the token endpoint keeps its invariant.
LEMMA GrantsStep == GrantsInv /\ Auth!Next => GrantsInv'
<1>1. SUFFICES ASSUME GrantsInv, Auth!Next PROVE GrantsInv'
    OBVIOUS
<1>2. ASSUME NEW c \in Codes, NEW client \in Clients, Auth!Authorize(c, client) PROVE GrantsInv'
    <2>1. /\ UNCHANGED <<s2, s3, s4, s5, s6, s7, s8, s9>> /\ DOMAIN s1' = Codes
          /\ \A d \in Codes : s1[d].at = "taken" => s1'[d].at = "taken"
        BY <1>1, <1>2 DEF Auth!Authorize, GrantsInv, GrantTypes
    <2> QED
        BY <1>1, <2>1 DEF GrantsInv, GrantTypes, Pairs, CodesUsedUp, OneOfAFamily, TakenIsGone, Remembered
<1>3. ASSUME NEW c \in Codes, Auth!CodeExpires(c) PROVE GrantsInv'
    <2>1. /\ UNCHANGED <<s2, s3, s4, s5, s6, s7, s8, s9>> /\ DOMAIN s1' = Codes
          /\ \A d \in Codes : s1[d].at = "taken" => s1'[d].at = "taken"
        BY <1>1, <1>3 DEF Auth!CodeExpires, GrantsInv, GrantTypes
    <2> QED
        BY <1>1, <2>1 DEF GrantsInv, GrantTypes, Pairs, CodesUsedUp, OneOfAFamily, TakenIsGone, Remembered
<1> QED
    BY <1>1, <1>2, <1>3, SaveStep, ExchangeStep, RotateStep, ReplayStep, AgeStep DEF Auth!Next

\* What the invariant says of codes and tokens.
LEMMA GrantsAreSound == GrantsInv => Auth!GrantsWorkOnce /\ Auth!ReplayEndsFamily
<1>1. SUFFICES ASSUME GrantsInv PROVE Auth!GrantsWorkOnce /\ Auth!ReplayEndsFamily
    OBVIOUS
<1>2. \A t \in Auth!Held : t \in s2 \/ \E q \in TokenCalls : t = s4[q] /\ s4[q] # Auth!Nothing
    BY DEF Auth!Held
<1>3. \A s, t \in Auth!Held : s.family = t.family => s = t
    BY <1>1, <1>2 DEF GrantsInv, OneOfAFamily
<1>4. \A s \in s6, t \in Auth!Held : s.refresh # t.id
    BY <1>1, <1>2 DEF GrantsInv, TakenIsGone
<1>5. Auth!GrantsWorkOnce
    BY <1>1, <1>3, <1>4 DEF GrantsInv, CodesUsedUp, Auth!GrantsWorkOnce
<1>6. Auth!ReplayEndsFamily
    BY <1>1 DEF GrantsInv, Remembered, Auth!ReplayEndsFamily
<1> QED
    BY <1>5, <1>6

-----------------------------------------------------------------------------
(* The ASGI adapter: scope, req, wire, gone, pc, got, events and hooks are  *)
(* s1 to s8.                                                                *)

\* A sequence with one element more.
LEMMA Appended ==
    ASSUME NEW S, NEW s \in Seq(S), NEW e \in S
    PROVE  \E r \in Seq(S) : /\ r = Append(s, e) /\ Len(r) = Len(s) + 1 /\ Len(s) \in Nat
                             /\ DOMAIN r = 1 .. Len(s) + 1 /\ DOMAIN s = 1 .. Len(s)
                             /\ r[Len(s) + 1] = e /\ \A j \in 1 .. Len(s) : r[j] = s[j]
<1>1. /\ Append(s, e) \in Seq(S) /\ Len(Append(s, e)) = Len(s) + 1
      /\ Append(s, e)[Len(s) + 1] = e /\ \A j \in 1 .. Len(s) : Append(s, e)[j] = s[j]
    BY AppendProperties
<1>2. Len(s) \in Nat /\ DOMAIN s = 1 .. Len(s)
    BY LenProperties
<1>3. DOMAIN Append(s, e) = 1 .. Len(s) + 1
    BY <1>1, LenProperties
<1> QED
    BY <1>1, <1>2, <1>3, Zenon

\* What the handler has been given, if the adapter reads the body for it.
Whole == s2.stream \/ (s6 <= s2.limit /\ (s6 = s2.body \/ s4))

\* The head of the answer has been sent, and parts of its body.
Begun == /\ Len(s7) >= 1 /\ s7[1] = "200"
         /\ \A i \in 2 .. Len(s7) : s7[i] = "more"
         /\ s2.head => Len(s7) = 1

\* The answer has been sent to its end.
Answered == /\ Len(s7) >= 2 /\ s7[1] \in {"200", "400", "413"}
            /\ s7[Len(s7)] \in {"last", "whole"}
            /\ \A i \in 2 .. Len(s7) - 1 : s7[i] = "more"
            /\ s2.head => Len(s7) = 2 /\ s7[2] = "last"
            /\ s7[1] = "200" => Whole

\* A request: what has been read of its body and what has been answered go
\* with the place of the adapter.
HttpInv ==
    /\ s5 \in {"start", "read", "handle", "plain", "bodiless", "stream", "raised", "done"}
    /\ s5 = "start" => s7 = <<>> /\ s6 = 0 /\ s3 = s2.body
    /\ s5 = "read" => s7 = <<>> /\ ~s2.stream /\ s6 <= s2.limit /\ s6 + s3 = s2.body
    /\ s5 = "handle" => s7 = <<>> /\ Whole
    /\ s5 \in {"plain", "bodiless"} => Whole /\ Begun /\ Len(s7) = 1
    /\ s5 \in {"stream", "raised"} => Whole /\ Begun
    /\ s5 = "done" => Answered

\* The ends of a socket, of which there is one.
OneEnd == \A i, j \in DOMAIN s7 : s7[i] \in Asgi!Ends /\ s7[j] \in Asgi!Ends => i = j
NoEnd == \A i \in DOMAIN s7 : s7[i] \notin Asgi!Ends

\* A socket: the hooks that have run go with the place of the listener.
ListenerInv ==
    /\ s5 \in {"start", "connect", "receive", "finally", "finally raised", "ended", "failed", "done", "cut"}
    /\ OneEnd
    /\ s5 = "start" => s7 = <<>> /\ s8 = <<>>
    /\ s5 = "connect" => NoEnd /\ s8 = <<>>
    /\ s5 = "receive" => NoEnd /\ s8 = <<"connect">>
    /\ s5 \in {"finally", "finally raised"} => s8 = <<"connect">>
    /\ s5 \in {"ended", "failed", "done", "cut"} => s8 \in {<<>>, <<"connect", "disconnect">>}
    /\ s5 \in {"ended", "failed", "done"} =>
         (Len(s7) > 0 /\ s7[1] = "accept" => s8 = <<"connect", "disconnect">>)
    /\ s5 = "done" => ~NoEnd

Events == {"200", "400", "413", "more", "last", "whole", "startup.complete", "startup.failed",
           "shutdown.complete", "shutdown.failed", "accept", "send"} \cup Asgi!Ends

AdapterTypes ==
    /\ s2 \in Asgi!Heads /\ s3 \in Nat /\ s4 \in BOOLEAN /\ s6 \in Nat
    /\ s7 \in Seq(Events) /\ s8 \in Seq({"connect", "disconnect"})

AdapterInv ==
    /\ AdapterTypes
    /\ s1 = "http" => HttpInv
    /\ s1 = "websocket" => ListenerInv

USE DEF Asgi!Emit, Asgi!Same, Asgi!over

\* The limit of a request and the length of its body are numbers.
LEMMA Lengths == s2 \in Asgi!Heads => s2.limit \in Nat /\ s2.body \in Nat
<1>1. SUFFICES ASSUME s2 \in Asgi!Heads PROVE s2.limit \in Nat /\ s2.body \in Nat
    OBVIOUS
<1>2. s2.limit \in BodyLimits /\ s2.body \in 0 .. BodyLen
    BY <1>1 DEF Asgi!Heads
<1>3. BodyLimits \subseteq Nat /\ BodyLen \in Nat
    BY ServicesAssumption DEF Asgi!AdapterAssumption
<1>4. s2.limit \in Nat
    BY <1>2, <1>3, Zenon
<1>5. s2.body \in Nat
    <2>1. PICK n \in 0 .. BodyLen : n = s2.body
        BY <1>2, Zenon
    <2> QED
        BY <1>3, <2>1
<1> QED
    BY <1>4, <1>5

LEMMA AdapterInit == Asgi!Init => AdapterInv
<1>1. SUFFICES ASSUME Asgi!Init PROVE AdapterInv
    OBVIOUS
<1>2. s2 \in Asgi!Heads
    <2>1. Asgi!Heads # {} => (CHOOSE x \in Asgi!Heads : TRUE) \in Asgi!Heads
        OBVIOUS
    <2> QED
        BY <1>1, <2>1 DEF Asgi!Init
<1>3. s2.body \in Nat
    BY <1>2, Lengths
<1>4. AdapterTypes
    <2>1. s3 \in Nat /\ s6 \in Nat /\ s7 = <<>> /\ s8 = <<>>
        BY <1>1, <1>3 DEF Asgi!Init
    <2>2. s4 \in BOOLEAN
        BY <1>1, Zenon DEF Asgi!Init
    <2>3. s7 \in Seq(Events) /\ s8 \in Seq({"connect", "disconnect"})
        BY <2>1
    <2> QED
        BY <1>2, <2>1, <2>2, <2>3 DEF AdapterTypes
<1>5. s5 = "start" /\ s7 = <<>> /\ s8 = <<>> /\ s6 = 0 /\ s3 = s2.body
    BY <1>1 DEF Asgi!Init
<1>6. HttpInv /\ ListenerInv
    BY <1>5 DEF HttpInv, ListenerInv, OneEnd
<1> QED
    BY <1>4, <1>6 DEF AdapterInv

\* A message that ends an answer of which the head was sent.
LEMMA LastMessage ==
    ASSUME AdapterTypes, Begun, Whole, NEW e \in {"last", "whole"}, s7' = Append(s7, e),
           s2.head => e = "last", UNCHANGED <<s2, s4, s6>>
    PROVE  Answered' /\ s7' \in Seq(Events)
<1>1. s7 \in Seq(Events) /\ e \in Events
    BY DEF AdapterTypes, Events
<1>2. PICK r \in Seq(Events) : /\ r = Append(s7, e) /\ Len(r) = Len(s7) + 1 /\ Len(s7) \in Nat
                               /\ DOMAIN r = 1 .. Len(s7) + 1 /\ DOMAIN s7 = 1 .. Len(s7)
                               /\ r[Len(s7) + 1] = e /\ \A j \in 1 .. Len(s7) : r[j] = s7[j]
    BY <1>1, Appended
<1>3. r = s7'
    BY <1>2
<1>4. PICK n \in Nat : n = Len(s7)
    BY <1>2
<1>5. /\ n >= 1 /\ s7[1] = "200" /\ \A i \in 2 .. n : s7[i] = "more"
      /\ s2.head => n = 1
    BY <1>4 DEF Begun
<1>6. Len(r) = n + 1 /\ r[n + 1] = e /\ \A j \in 1 .. n : r[j] = s7[j]
    BY <1>2, <1>4
<1>7. /\ Len(r) >= 2 /\ r[1] = "200" /\ r[Len(r)] = e
      /\ \A i \in 2 .. Len(r) - 1 : r[i] = "more"
      /\ s2.head => Len(r) = 2 /\ r[2] = e
    BY <1>5, <1>6
<1>8. Whole'
    BY DEF Whole
<1> QED
    BY <1>2, <1>3, <1>7, <1>8 DEF Answered

\* The peer goes: it excuses a body that is not whole, and changes nothing else.
LEMMA DisconnectStep == AdapterInv /\ Asgi!Disconnect => AdapterInv'
<1>1. SUFFICES ASSUME AdapterInv, Asgi!Disconnect PROVE AdapterInv'
    OBVIOUS
<1>2. UNCHANGED <<s1, s2, s3, s5, s6, s7, s8>> /\ s4' = TRUE
    BY <1>1 DEF Asgi!Disconnect
<1>3. Whole => Whole'
    BY <1>2, Zenon DEF Whole
<1>4. AdapterTypes'
    <2>1. s4' \in BOOLEAN
        BY <1>2, Zenon
    <2> QED
        BY <1>1, <1>2, <2>1 DEF AdapterInv, AdapterTypes
<1>5. HttpInv => HttpInv'
    BY <1>2, <1>3 DEF HttpInv, Begun, Answered
<1>6. ListenerInv => ListenerInv'
    BY <1>2 DEF ListenerInv, OneEnd, NoEnd
<1> QED
    BY <1>1, <1>2, <1>4, <1>5, <1>6 DEF AdapterInv

\* A request refused before its handler ran has its whole answer.
LEMMA RefusedStep ==
    ASSUME NEW status \in {"400", "413"}, AdapterTypes, s7 = <<>>, Asgi!Refused(status), UNCHANGED s2
    PROVE  s5' = "done" /\ Answered' /\ s7' \in Seq(Events)
<1>1. s5' = "done" /\ s7' = <<status, "last">>
    BY DEF Asgi!Refused
<1>2. Len(s7') = 2 /\ s7'[1] = status /\ s7'[2] = "last"
    BY <1>1
<1>3. Answered'
    BY <1>2 DEF Answered
<1>4. status \in Events /\ "last" \in Events
    BY DEF Events
<1>5. <<status, "last">> \in Seq(Events)
    BY <1>4
<1> QED
    BY <1>1, <1>3, <1>5

LEMMA StartStep == AdapterInv /\ Asgi!Start => AdapterInv'
<1>1. SUFFICES ASSUME AdapterInv, Asgi!Start PROVE AdapterInv'
    OBVIOUS
<1>2. UNCHANGED <<s1, s2, s3, s4, s6, s8>> /\ s1 = "http" /\ s5 = "start"
    BY <1>1 DEF Asgi!Start
<1>3. s7 = <<>> /\ s6 = 0 /\ s3 = s2.body
    BY <1>1, <1>2 DEF AdapterInv, HttpInv
<1>4. CASE Asgi!Refused("400") \/ Asgi!Refused("413")
    <2>1. s5' = "done" /\ Answered' /\ s7' \in Seq(Events)
        BY <1>1, <1>2, <1>3, <1>4, RefusedStep DEF AdapterInv
    <2> QED
        BY <1>1, <1>2, <2>1 DEF AdapterInv, AdapterTypes, HttpInv
<1>5. CASE s5' = (IF s2.stream THEN "handle" ELSE "read") /\ UNCHANGED s7
    <2>1. s2.limit \in Nat /\ s2.body \in Nat
        BY <1>1, Lengths DEF AdapterInv, AdapterTypes
    <2>2. s6' <= s2'.limit /\ s6' + s3' = s2'.body
        BY <1>2, <1>3, <2>1
    <2>3. HttpInv'
        BY <1>2, <1>3, <1>5, <2>2 DEF HttpInv, Whole
    <2> QED
        BY <1>1, <1>2, <1>5, <2>3 DEF AdapterInv, AdapterTypes
<1> QED
    BY <1>1, <1>4, <1>5 DEF Asgi!Start

\* One message of the body: what was read and what is still to come make up the
\* body, and a reader that goes on is within the limit.
LEMMA ReadStep == AdapterInv /\ Asgi!Read => AdapterInv'
<1>1. SUFFICES ASSUME AdapterInv, Asgi!Read PROVE AdapterInv'
    OBVIOUS
<1>2. UNCHANGED <<s1, s2, s4, s8>> /\ s1 = "http" /\ s5 = "read"
    BY <1>1 DEF Asgi!Read
<1>3. s7 = <<>> /\ ~s2.stream /\ s6 <= s2.limit /\ s6 + s3 = s2.body
    BY <1>1, <1>2 DEF AdapterInv, HttpInv
<1>4. s6 \in Nat /\ s3 \in Nat /\ s2.limit \in Nat /\ s2.body \in Nat
    BY <1>1, Lengths DEF AdapterInv, AdapterTypes
<1>5. CASE s4
    <2>1. s5' = "handle" /\ UNCHANGED <<s3, s6, s7>>
        BY <1>1, <1>5 DEF Asgi!Read
    <2>2. Whole'
        BY <1>2, <1>3, <1>5, <2>1 DEF Whole
    <2> QED
        BY <1>1, <1>2, <1>3, <2>1, <2>2 DEF AdapterInv, AdapterTypes, HttpInv
<1>6. CASE ~s4
    <2> DEFINE n == IF s3 > 0 THEN s6 + 1 ELSE s6
    <2>1. n \in Nat
        BY <1>4
    <2>2. /\ s3' = IF s3 > 0 THEN s3 - 1 ELSE 0
          /\ IF n > s2.limit THEN Asgi!Refused("413") /\ s6' = n
             ELSE s6' = n /\ UNCHANGED s7 /\ s5' = (IF s3 > 1 THEN "read" ELSE "handle")
        BY <1>1, <1>6 DEF Asgi!Read, Asgi!TooLarge
    <2>3. s3' \in Nat /\ s6' \in Nat
        BY <1>4, <2>1, <2>2
    <2>4. CASE n > s2.limit
        <3>1. s5' = "done" /\ Answered' /\ s7' \in Seq(Events)
            BY <1>1, <1>2, <1>3, <2>2, <2>4, RefusedStep DEF AdapterInv
        <3> QED
            BY <1>1, <1>2, <2>3, <3>1 DEF AdapterInv, AdapterTypes, HttpInv
    <2>5. CASE ~(n > s2.limit)
        <3>1. n <= s2.limit /\ n + s3' = s2.body /\ (~(s3 > 1) => n = s2.body)
            BY <1>3, <1>4, <2>2, <2>5
        <3>2. s6' = n /\ UNCHANGED s7 /\ s5' = (IF s3 > 1 THEN "read" ELSE "handle")
            BY <2>2, <2>5
        <3>3. s6' <= s2'.limit /\ s6' + s3' = s2'.body /\ (~(s3 > 1) => s6' = s2'.body)
            BY <1>2, <3>1, <3>2
        <3>4. HttpInv'
            BY <1>2, <1>3, <3>2, <3>3 DEF HttpInv, Whole
        <3> QED
            BY <1>1, <1>2, <2>3, <3>2, <3>4 DEF AdapterInv, AdapterTypes
    <2> QED
        BY <2>4, <2>5
<1> QED
    BY <1>5, <1>6

LEMMA HandleStep == AdapterInv /\ Asgi!Handle => AdapterInv'
<1>1. SUFFICES ASSUME AdapterInv, Asgi!Handle PROVE AdapterInv'
    OBVIOUS
<1>2. /\ UNCHANGED <<s1, s2, s3, s4, s6, s8>> /\ s1 = "http" /\ s5 = "handle"
      /\ s5' \in {"plain", "stream", "bodiless"} /\ s7' = Append(s7, "200")
    BY <1>1 DEF Asgi!Handle
<1>3. s7 = <<>> /\ Whole
    BY <1>1, <1>2 DEF AdapterInv, HttpInv
<1>4. s7' = <<"200">> /\ Len(s7') = 1 /\ s7'[1] = "200" /\ s7' \in Seq(Events)
    BY <1>2, <1>3 DEF Events
<1>5. Whole'
    BY <1>2, <1>3 DEF Whole
<1>6. Begun'
    BY <1>4 DEF Begun
<1>7. HttpInv'
    BY <1>2, <1>4, <1>5, <1>6 DEF HttpInv
<1> QED
    BY <1>1, <1>2, <1>4, <1>7 DEF AdapterInv, AdapterTypes

LEMMA StreamOn == AdapterInv /\ Asgi!Stream => AdapterInv'
<1>1. SUFFICES ASSUME AdapterInv, Asgi!Stream PROVE AdapterInv'
    OBVIOUS
<1>2. UNCHANGED <<s1, s2, s3, s4, s6, s8>> /\ s1 = "http" /\ s5 = "stream"
    BY <1>1 DEF Asgi!Stream
<1>3. Begun /\ Whole
    BY <1>1, <1>2 DEF AdapterInv, HttpInv
<1>4. Whole'
    BY <1>2, <1>3 DEF Whole
<1>5. CASE ~s2.head /\ s7' = Append(s7, "more") /\ s5' = s5
    <2>1. PICK r \in Seq(Events) : /\ r = Append(s7, "more") /\ Len(r) = Len(s7) + 1 /\ Len(s7) \in Nat
                                   /\ DOMAIN r = 1 .. Len(s7) + 1 /\ DOMAIN s7 = 1 .. Len(s7)
                                   /\ r[Len(s7) + 1] = "more" /\ \A j \in 1 .. Len(s7) : r[j] = s7[j]
        <3>1. s7 \in Seq(Events) /\ "more" \in Events
            BY <1>1 DEF AdapterInv, AdapterTypes, Events
        <3> QED
            BY <3>1, Appended
    <2>2. r = s7'
        BY <1>5, <2>1
    <2>3. PICK n \in Nat : n = Len(s7)
        BY <2>1
    <2>4. n >= 1 /\ s7[1] = "200" /\ \A i \in 2 .. n : s7[i] = "more"
        BY <1>3, <2>3 DEF Begun
    <2>5. Len(r) = n + 1 /\ r[n + 1] = "more" /\ \A j \in 1 .. n : r[j] = s7[j]
        BY <2>1, <2>3
    <2>6. Len(r) >= 1 /\ r[1] = "200" /\ \A i \in 2 .. Len(r) : r[i] = "more"
        BY <2>4, <2>5
    <2>7. Begun'
        BY <1>2, <1>5, <2>2, <2>6 DEF Begun
    <2> QED
        BY <1>1, <1>2, <1>4, <1>5, <2>1, <2>2, <2>7 DEF AdapterInv, AdapterTypes, HttpInv
<1>6. CASE s5' = "raised" /\ UNCHANGED s7
    <2>1. Begun'
        BY <1>2, <1>3, <1>6 DEF Begun
    <2> QED
        BY <1>1, <1>2, <1>4, <1>6, <2>1 DEF AdapterInv, AdapterTypes, HttpInv
<1>7. CASE s7' = Append(s7, "last") /\ s5' = "done"
    <2>1. Answered' /\ s7' \in Seq(Events)
        BY <1>1, <1>2, <1>3, <1>7, LastMessage DEF AdapterInv
    <2> QED
        BY <1>1, <1>2, <1>7, <2>1 DEF AdapterInv, AdapterTypes, HttpInv
<1> QED
    BY <1>1, <1>5, <1>6, <1>7 DEF Asgi!Stream

LEMMA PlainStep == AdapterInv /\ Asgi!Plain => AdapterInv'
<1>1. SUFFICES ASSUME AdapterInv, Asgi!Plain PROVE AdapterInv'
    OBVIOUS
<1> DEFINE e == IF s5 = "plain" /\ ~s2.head THEN "whole" ELSE "last"
<1>2. /\ UNCHANGED <<s1, s2, s3, s4, s6, s8>> /\ s1 = "http" /\ s5 \in {"plain", "bodiless"}
      /\ s7' = Append(s7, e) /\ s5' = "done"
    BY <1>1 DEF Asgi!Plain
<1>3. Begun /\ Whole
    BY <1>1, <1>2 DEF AdapterInv, HttpInv
<1>4. e \in {"last", "whole"} /\ (s2.head => e = "last")
    OBVIOUS
<1> HIDE DEF e
<1>5. Answered' /\ s7' \in Seq(Events)
    BY <1>1, <1>2, <1>3, <1>4, LastMessage DEF AdapterInv
<1> QED
    BY <1>1, <1>2, <1>5 DEF AdapterInv, AdapterTypes, HttpInv

LEMMA LifespanStep == AdapterInv /\ (Asgi!Startup \/ Asgi!Shutdown) => AdapterInv'
<1>1. SUFFICES ASSUME AdapterInv, Asgi!Startup \/ Asgi!Shutdown PROVE AdapterInv'
    OBVIOUS
<1>2. /\ UNCHANGED <<s1, s2, s3, s4, s6, s8>> /\ s1 = "lifespan"
      /\ \E e \in Events : s7' = Append(s7, e)
    BY <1>1 DEF Asgi!Startup, Asgi!Shutdown, Events
<1>3. s7' \in Seq(Events)
    BY <1>1, <1>2 DEF AdapterInv, AdapterTypes
<1> QED
    BY <1>1, <1>2, <1>3 DEF AdapterInv, AdapterTypes

\* A message after which the socket has at most one end: it is no end itself,
\* or there was none.
LEMMA SocketMessage ==
    ASSUME s7 \in Seq(Events), NEW e \in Events, s7' = Append(s7, e), OneEnd, e \notin Asgi!Ends \/ NoEnd
    PROVE  /\ s7' \in Seq(Events) /\ OneEnd' /\ (NoEnd /\ e \notin Asgi!Ends => NoEnd')
           /\ (e \in Asgi!Ends => ~NoEnd')
           /\ Len(s7') > 0 /\ (Len(s7) > 0 => s7'[1] = s7[1]) /\ (Len(s7) = 0 => s7'[1] = e)
<1>1. PICK r \in Seq(Events) : /\ r = Append(s7, e) /\ Len(r) = Len(s7) + 1 /\ Len(s7) \in Nat
                               /\ DOMAIN r = 1 .. Len(s7) + 1 /\ DOMAIN s7 = 1 .. Len(s7)
                               /\ r[Len(s7) + 1] = e /\ \A j \in 1 .. Len(s7) : r[j] = s7[j]
    BY Appended
<1>2. r = s7'
    BY <1>1
<1>3. PICK n \in Nat : n = Len(s7)
    BY <1>1
<1>4. /\ Len(r) = n + 1 /\ DOMAIN r = 1 .. n + 1 /\ DOMAIN s7 = 1 .. n
      /\ r[n + 1] = e /\ \A j \in 1 .. n : r[j] = s7[j]
    BY <1>1, <1>3
<1>5. \A i, j \in DOMAIN r : r[i] \in Asgi!Ends /\ r[j] \in Asgi!Ends => i = j
    <2>1. SUFFICES ASSUME NEW i \in 1 .. n + 1, NEW j \in 1 .. n + 1, r[i] \in Asgi!Ends, r[j] \in Asgi!Ends
                   PROVE  i = j
        BY <1>4
    <2>2. (i = n + 1 \/ i \in 1 .. n) /\ (j = n + 1 \/ j \in 1 .. n)
        OBVIOUS
    <2>3. \A k \in 1 .. n : r[k] \in Asgi!Ends => s7[k] \in Asgi!Ends /\ e \notin Asgi!Ends
        BY <1>4 DEF NoEnd
    <2>4. i \in 1 .. n /\ j \in 1 .. n => i = j
        BY <1>4, <2>1, <2>3 DEF OneEnd
    <2> QED
        BY <1>4, <2>1, <2>2, <2>3, <2>4
<1>6. NoEnd /\ e \notin Asgi!Ends => \A i \in DOMAIN r : r[i] \notin Asgi!Ends
    <2>1. \A i \in 1 .. n + 1 : i = n + 1 \/ i \in 1 .. n
        OBVIOUS
    <2> QED
        BY <1>4, <2>1 DEF NoEnd
<1>7. e \in Asgi!Ends => ~\A i \in DOMAIN r : r[i] \notin Asgi!Ends
    BY <1>4
<1>8. Len(r) > 0 /\ (n > 0 => r[1] = s7[1]) /\ (n = 0 => r[1] = e)
    BY <1>4
<1> QED
    BY <1>2, <1>3, <1>5, <1>6, <1>7, <1>8 DEF OneEnd, NoEnd

LEMMA AcceptStep == AdapterInv /\ Asgi!Accept => AdapterInv'
<1>1. SUFFICES ASSUME AdapterInv, Asgi!Accept PROVE AdapterInv'
    OBVIOUS
<1>2. UNCHANGED <<s1, s2, s3, s4, s6, s8>> /\ s1 = "websocket" /\ s5 = "start"
    BY <1>1 DEF Asgi!Accept
<1>3. s7 = <<>> /\ s8 = <<>>
    BY <1>1, <1>2 DEF AdapterInv, ListenerInv
<1>4. CASE s7' = Append(s7, "accept") /\ s5' \in {"connect", "cut"}
    <2>1. s7' = <<"accept">>
        BY <1>3, <1>4
    <2>2. s7' \in Seq(Events)
        BY <2>1 DEF Events
    <2>3. NoEnd'
        <3>1. DOMAIN s7' = {1} /\ s7'[1] = "accept"
            BY <2>1
        <3> QED
            BY <3>1 DEF NoEnd, Asgi!Ends
    <2>4. OneEnd'
        BY <2>3 DEF NoEnd, OneEnd
    <2>5. ListenerInv'
        BY <1>2, <1>3, <1>4, <2>3, <2>4 DEF ListenerInv
    <2> QED
        BY <1>1, <1>2, <2>2, <2>5 DEF AdapterInv, AdapterTypes
<1>5. CASE s5' \in {"failed", "cut"} /\ UNCHANGED s7
    <2>1. s7' = <<>> /\ s8' = <<>> /\ Len(s7') = 0
        BY <1>2, <1>3, <1>5
    <2>2. OneEnd'
        BY <2>1 DEF OneEnd
    <2>3. s8' \in {<<>>, <<"connect", "disconnect">>} /\ ~(Len(s7') > 0)
        BY <2>1
    <2>4. ListenerInv'
        BY <1>5, <2>2, <2>3 DEF ListenerInv
    <2> QED
        BY <1>1, <1>2, <1>5, <2>4 DEF AdapterInv, AdapterTypes
<1> QED
    BY <1>1, <1>4, <1>5 DEF Asgi!Accept

\* The hooks of the listener: on_connect first, on_disconnect in its finally.
LEMMA HookStep == AdapterInv /\ (Asgi!OnConnect \/ Asgi!OnDisconnect) => AdapterInv'
<1>1. SUFFICES ASSUME AdapterInv, Asgi!OnConnect \/ Asgi!OnDisconnect PROVE AdapterInv'
    OBVIOUS
<1>2. UNCHANGED <<s1, s2, s3, s4, s6>> /\ s1 = "websocket"
    BY <1>1 DEF Asgi!OnConnect, Asgi!OnDisconnect
<1>3. ListenerInv
    BY <1>1, <1>2 DEF AdapterInv
<1>4. CASE Asgi!OnConnect
    <2>1. /\ s8 = <<>> /\ NoEnd /\ OneEnd /\ s8' = Append(s8, "connect")
          /\ \/ s5' \in {"receive", "finally", "finally raised"} /\ UNCHANGED s7
             \/ s5' = "finally" /\ s7' = Append(s7, "disconnect")
        BY <1>3, <1>4 DEF ListenerInv, Asgi!OnConnect
    <2>2. s8' = <<"connect">>
        <3>1. s8' = Append(<<>>, "connect")
            BY <2>1, Zenon
        <3>2. Append(<<>>, "connect") = <<"connect">>
            OBVIOUS
        <3> QED
            BY <3>1, <3>2, Zenon
    <2>3. s7 \in Seq(Events) /\ "disconnect" \in Events
        BY <1>1 DEF AdapterInv, AdapterTypes, Events, Asgi!Ends
    <2>4. s7' = Append(s7, "disconnect") => s7' \in Seq(Events) /\ OneEnd'
        BY <2>1, <2>3, SocketMessage
    <2>5. UNCHANGED s7 => s7' \in Seq(Events) /\ OneEnd' /\ NoEnd'
        BY <2>1, <2>3 DEF OneEnd, NoEnd
    <2>6. ListenerInv'
        BY <2>1, <2>2, <2>4, <2>5 DEF ListenerInv
    <2>7. s8' \in Seq({"connect", "disconnect"})
        BY <2>2
    <2> QED
        BY <1>1, <1>2, <2>1, <2>4, <2>5, <2>6, <2>7 DEF AdapterInv, AdapterTypes
<1>5. CASE Asgi!OnDisconnect
    <2>1. /\ s8 = <<"connect">> /\ s8' = Append(s8, "disconnect")
          /\ s5' \in {"ended", "failed", "cut"} /\ UNCHANGED s7
        BY <1>3, <1>5 DEF ListenerInv, Asgi!OnDisconnect
    <2>2. s8' = <<"connect", "disconnect">>
        <3>1. s8' = Append(<<"connect">>, "disconnect")
            BY <2>1, Zenon
        <3>2. Append(<<"connect">>, "disconnect") = <<"connect", "disconnect">>
            <4> DEFINE a == <<"connect">>
                       b == <<"connect", "disconnect">>
            <4>1. a \in Seq({"connect", "disconnect"}) /\ Len(a) = 1 /\ a[1] = "connect"
                OBVIOUS
            <4>2. b \in Seq({"connect", "disconnect"}) /\ Len(b) = 2 /\ b[1] = "connect" /\ b[2] = "disconnect"
                OBVIOUS
            <4> HIDE DEF a, b
            <4> DEFINE S == {"connect", "disconnect"}
            <4>3. "disconnect" \in S /\ a \in Seq(S)
                BY <4>1
            <4> HIDE DEF S
            <4>4. PICK r \in Seq(S) : /\ r = Append(a, "disconnect") /\ Len(r) = Len(a) + 1 /\ Len(a) \in Nat
                                      /\ DOMAIN r = 1 .. Len(a) + 1 /\ DOMAIN a = 1 .. Len(a)
                                      /\ r[Len(a) + 1] = "disconnect" /\ \A j \in 1 .. Len(a) : r[j] = a[j]
                BY <4>3, Appended
            <4>5. Len(r) = 2 /\ r[1] = "connect" /\ r[2] = "disconnect"
                BY <4>1, <4>4
            <4>6. \A i \in 1 .. Len(r) : r[i] = b[i]
                BY <4>2, <4>5
            <4>7. r = b
                BY <4>2, <4>4, <4>6, <4>5, SeqEqual DEF S
            <4> QED
                BY <4>4, <4>7 DEF a, b
        <3> QED
            BY <3>1, <3>2, Zenon
    <2>3. ListenerInv'
        BY <1>2, <1>3, <2>1, <2>2 DEF ListenerInv, OneEnd
    <2>4. s8' \in Seq({"connect", "disconnect"})
        BY <2>2
    <2> QED
        BY <1>1, <1>2, <2>1, <2>3, <2>4 DEF AdapterInv, AdapterTypes
<1> QED
    BY <1>1, <1>4, <1>5

LEMMA ReceiveStep == AdapterInv /\ Asgi!Receive => AdapterInv'
<1>1. SUFFICES ASSUME AdapterInv, Asgi!Receive PROVE AdapterInv'
    OBVIOUS
<1>2. UNCHANGED <<s1, s2, s3, s4, s6, s8>> /\ s1 = "websocket" /\ s5 = "receive"
    BY <1>1 DEF Asgi!Receive
<1>3. OneEnd /\ NoEnd /\ s8 = <<"connect">>
    BY <1>1, <1>2 DEF AdapterInv, ListenerInv
<1>4. CASE s5' \in {"finally", "finally raised"} /\ UNCHANGED s7
    <2>1. ListenerInv'
        BY <1>2, <1>3, <1>4 DEF ListenerInv, OneEnd
    <2> QED
        BY <1>1, <1>2, <1>4, <2>1 DEF AdapterInv, AdapterTypes
<1>5. CASE \E e \in {"disconnect", "close 1007", "close 1001", "close own", "send"} :
             s7' = Append(s7, e) /\ s5' = IF e = "send" THEN "receive" ELSE "finally"
    <2>1. PICK e \in {"disconnect", "close 1007", "close 1001", "close own", "send"} :
             s7' = Append(s7, e) /\ s5' = IF e = "send" THEN "receive" ELSE "finally"
        BY <1>5
    <2>2. s7 \in Seq(Events) /\ e \in Events
        BY <1>1, <2>1 DEF AdapterInv, AdapterTypes, Events, Asgi!Ends
    <2>3. s7' \in Seq(Events) /\ OneEnd' /\ (e = "send" => NoEnd')
        BY <1>3, <2>1, <2>2, SocketMessage DEF Asgi!Ends
    <2>4. ListenerInv'
        BY <1>2, <1>3, <2>1, <2>3 DEF ListenerInv
    <2> QED
        BY <1>1, <1>2, <2>3, <2>4 DEF AdapterInv, AdapterTypes
<1>6. \/ s5' \in {"finally", "finally raised"} /\ UNCHANGED s7
      \/ \E e \in {"disconnect", "close 1007", "close 1001", "close own", "send"} :
             s7' = Append(s7, e) /\ s5' = IF e = "send" THEN "receive" ELSE "finally"
    BY <1>1 DEF Asgi!Receive
<1> QED
    BY <1>4, <1>5, <1>6

\* The close the handler still owes is the only one.
LEMMA RunEndsStep == AdapterInv /\ Asgi!RunEnds => AdapterInv'
<1>1. SUFFICES ASSUME AdapterInv, Asgi!RunEnds PROVE AdapterInv'
    OBVIOUS
<1>2. /\ UNCHANGED <<s1, s2, s3, s4, s6, s8>> /\ s1 = "websocket"
      /\ s5 \in {"ended", "failed"} /\ s5' \in {"done", "cut"}
    BY <1>1 DEF Asgi!RunEnds
<1>3. /\ OneEnd /\ (Len(s7) > 0 /\ s7[1] = "accept" => s8 = <<"connect", "disconnect">>)
      /\ s8 \in {<<>>, <<"connect", "disconnect">>}
    BY <1>1, <1>2 DEF AdapterInv, ListenerInv
<1>4. CASE NoEnd /\ \E e \in Asgi!Owed : s7' = Append(s7, e)
    <2>1. PICK e \in Asgi!Ends \cap Events : s7' = Append(s7, e) /\ e # "accept"
        BY <1>4 DEF Asgi!Owed, Asgi!Ends, Events
    <2>2. s7 \in Seq(Events)
        BY <1>1 DEF AdapterInv, AdapterTypes
    <2>3. /\ s7' \in Seq(Events) /\ OneEnd' /\ ~NoEnd'
          /\ (Len(s7) > 0 => s7'[1] = s7[1]) /\ (Len(s7) = 0 => s7'[1] = e)
        BY <1>3, <1>4, <2>1, <2>2, SocketMessage
    <2>4. Len(s7) = 0 \/ Len(s7) > 0
        <3>1. Len(s7) \in Nat
            BY <2>2, LenProperties
        <3> QED
            BY <3>1
    <2>5. s7'[1] = "accept" => s8 = <<"connect", "disconnect">>
        BY <1>3, <2>1, <2>3, <2>4
    <2>6. ListenerInv'
        BY <1>2, <1>3, <2>3, <2>5 DEF ListenerInv
    <2> QED
        BY <1>1, <1>2, <2>3, <2>6 DEF AdapterInv, AdapterTypes
<1>5. CASE UNCHANGED s7 /\ (s5' = "cut" \/ ~NoEnd)
    <2>1. OneEnd' /\ (~NoEnd => ~NoEnd')
        BY <1>3, <1>5 DEF OneEnd, NoEnd
    <2>2. ListenerInv'
        BY <1>2, <1>3, <1>5, <2>1 DEF ListenerInv
    <2> QED
        BY <1>1, <1>2, <1>5, <2>2 DEF AdapterInv, AdapterTypes
<1> QED
    BY <1>1, <1>4, <1>5 DEF Asgi!RunEnds, Asgi!NeedsClose, NoEnd

\* Every step of the adapter keeps its invariant.
LEMMA AdapterStep == AdapterInv /\ Asgi!Next => AdapterInv'
BY DisconnectStep, StartStep, ReadStep, HandleStep, StreamOn, PlainStep, LifespanStep, AcceptStep,
   HookStep, ReceiveStep, RunEndsStep DEF Asgi!Next

\* What the invariant says of bodies and answers.
LEMMA AdapterIsSound == AdapterInv => Asgi!WholeOrGone /\ Asgi!ConversationsEnd
<1>1. SUFFICES ASSUME AdapterInv PROVE Asgi!WholeOrGone /\ Asgi!ConversationsEnd
    OBVIOUS
<1>2. s7 \in Seq(Events)
    BY <1>1 DEF AdapterInv, AdapterTypes
<1>3. PICK n \in Nat : n = Len(s7) /\ DOMAIN s7 = 1 .. n
    BY <1>2
<1>4. ASSUME s1 = "http"
      PROVE  /\ \A i \in 1 .. n : s7[i] \in {"200", "400", "413"} <=> i = 1
             /\ \A i \in 1 .. n : s7[i] \in {"last", "whole"} => i = n
             /\ s5 = "done" => s7[n] \in {"last", "whole"}
             /\ s2.head => \A i \in 1 .. n : s7[i] \notin {"more", "whole"}
             /\ ~s2.stream => \A i \in 1 .. n : s7[i] = "200" => Whole
    <2>1. HttpInv
        BY <1>1, <1>4 DEF AdapterInv
    <2>2. CASE s7 = <<>>
        <3>1. n = 0 /\ s5 # "done"
            BY <1>3, <2>1, <2>2 DEF HttpInv, Answered
        <3> QED
            BY <3>1
    <2>3. CASE Begun /\ Whole /\ s5 # "done"
        <3>1. /\ n >= 1 /\ s7[1] = "200" /\ \A i \in 2 .. n : s7[i] = "more"
              /\ s2.head => n = 1
            BY <1>3, <2>3 DEF Begun
        <3>2. \A i \in 1 .. n : i = 1 \/ i \in 2 .. n
            OBVIOUS
        <3> QED
            BY <2>3, <3>1, <3>2
    <2>4. CASE Answered
        <3>1. /\ n >= 2 /\ s7[1] \in {"200", "400", "413"} /\ s7[n] \in {"last", "whole"}
              /\ \A i \in 2 .. n - 1 : s7[i] = "more"
              /\ s2.head => n = 2 /\ s7[2] = "last"
              /\ s7[1] = "200" => Whole
            BY <1>3, <2>4 DEF Answered
        <3>2. \A i \in 1 .. n : i = 1 \/ i = n \/ i \in 2 .. n - 1
            OBVIOUS
        <3> QED
            BY <3>1, <3>2
    <2> QED
        BY <2>1, <2>2, <2>3, <2>4 DEF HttpInv
<1>5. Asgi!WholeOrGone
    <2>1. SUFFICES ASSUME s1 = "http", ~s2.stream, "200" \in Asgi!Range(s7)
                   PROVE  s6 <= s2.limit /\ (s6 = s2.body \/ s4)
        BY DEF Asgi!WholeOrGone
    <2>2. PICK i \in 1 .. n : s7[i] = "200"
        BY <1>3, <2>1 DEF Asgi!Range
    <2>3. Whole
        BY <1>4, <2>1, <2>2
    <2> QED
        BY <2>1, <2>3 DEF Whole
<1>6. ASSUME s1 = "websocket", s5 \in {"done", "cut"}
      PROVE  /\ s8 # <<>> => s8 = <<"connect", "disconnect">>
             /\ \A i, j \in DOMAIN s7 : s7[i] \in Asgi!Ends /\ s7[j] \in Asgi!Ends => i = j
             /\ s5 = "done" =>
                  /\ Len(s7) > 0 /\ s7[1] = "accept" => s8 = <<"connect", "disconnect">>
                  /\ \E i \in DOMAIN s7 : s7[i] \in Asgi!Ends
    BY <1>1, <1>6 DEF AdapterInv, ListenerInv, OneEnd, NoEnd
<1>7. Asgi!ConversationsEnd
    BY <1>3, <1>4, <1>6 DEF Asgi!ConversationsEnd
<1> QED
    BY <1>5, <1>7

-----------------------------------------------------------------------------
(* The readers of a body: channel, source, request, reader, uploads and mode *)
(* are s1 to s6.                                                            *)

Texts == {Chunks[i] : i \in DOMAIN Chunks}
Messages == [kind : {"request", "disconnect"}, chunk : Seq(Texts), more : BOOLEAN]

\* The records have their fields.
BodyShapes ==
    /\ DOMAIN s2 = {"done", "disconnected", "size", "max"}
    /\ DOMAIN s3 = {"drained", "body", "json", "form"}
    /\ DOMAIN s4 = Readers /\ \A r \in Readers : DOMAIN s4[r] = {"op", "at", "parts", "result"}

\* While one reads nobody else does, or has failed, and the body is not drained.
Turns ==
    /\ \A r, q \in Readers : s4[r].at = "reading" /\ r # q => s4[q].at \in {"idle", "done"}
    /\ \A r \in Readers : s4[r].at = "reading" => ~s3.drained

\* A form was parsed of a drained body, and the request holds all that are open.
FormsKnown == (s3.form # {} => s3.drained) /\ s5 \subseteq s3.form

\* The messages to come are the chunks after those that have come, or a
\* disconnect.
Coming ==
    \A i \in 1 .. Len(s1) :
        \/ s1[i] = Body!Message("disconnect", <<>>, FALSE)
        \/ /\ s2.size + i <= Len(Chunks)
           /\ s1[i] = Body!Message("request", <<Chunks[s2.size + i]>>, s2.size + i < Len(Chunks))

\* A body that arrived: a prefix of the one that was sent, within the limit, and
\* short of it only after a disconnect.
Arrived(b) == b \in Body!Prefixes /\ Len(b) <= s2.max /\ (b \in Body!Cut => s2.disconnected)

\* The reader has what has come, and there is one at most until the end.
Reading ==
    /\ s1 \in Seq(Messages) /\ s2.max \in Nat
    /\ ~s2.done => Coming /\ s2.size \in 0 .. Len(Chunks) /\ ~s3.drained
    /\ ~s2.done /\ (\A r \in Readers : s4[r].at \in {"idle", "done"}) => s2.size = 0
    /\ \A r \in Readers : s4[r].at = "reading" =>
         ~s2.done /\ s4[r].op # "stream" /\ s2.size <= s2.max /\ s4[r].parts = SubSeq(Chunks, 1, s2.size)

\* What is drained is what arrived, and every reader that is done has it.
Drained ==
    /\ s2.done /\ ~s3.drained => \E r \in Readers : s4[r].at = "failed"
    /\ ~s3.drained => s3.json = Body!Unset /\ \A r \in Readers : s4[r].at # "done"
    /\ s3.drained =>
         /\ \A r \in Readers : s4[r].at \in {"idle", "done"} /\ (s4[r].at = "done" => s4[r].result = s3.body)
         /\ s3.json \in {Body!Unset, s3.body} /\ Arrived(s3.body)

BodyInv == s6 # "together" => /\ BodyShapes /\ Turns /\ FormsKnown
                              /\ s6 = "in turn" => Reading /\ Drained

\* A reader that is done with v.
LEMMA DoneReader ==
    ASSUME BodyShapes, NEW r \in Readers, NEW op, NEW v,
           s4' = [s4 EXCEPT ![r] = [op |-> op, at |-> "done", parts |-> <<>>, result |-> v]]
    PROVE  /\ DOMAIN s4' = Readers /\ \A q \in Readers : DOMAIN s4'[q] = {"op", "at", "parts", "result"}
           /\ s4'[r].at = "done" /\ s4'[r].result = v /\ \A q \in Readers : q # r => s4'[q] = s4[q]
<1>1. DOMAIN s4' = Readers /\ \A q \in Readers : q # r => s4'[q] = s4[q]
    BY DEF BodyShapes
<1>2. s4'[r] = [op |-> op, at |-> "done", parts |-> <<>>, result |-> v]
    BY DEF BodyShapes
<1>3. DOMAIN s4'[r] = {"op", "at", "parts", "result"} /\ s4'[r].at = "done" /\ s4'[r].result = v
    BY <1>2
<1> QED
    BY <1>1, <1>3 DEF BodyShapes

\* What a reader makes of a body that is in.
LEMMA Delivered ==
    ASSUME BodyShapes, NEW r \in Readers, NEW op, NEW b, Body!Deliver(r, op, b)
    PROVE  /\ DOMAIN s3' = {"drained", "body", "json", "form"}
           /\ DOMAIN s4' = Readers /\ \A q \in Readers : DOMAIN s4'[q] = {"op", "at", "parts", "result"}
           /\ s4'[r].at = "done" /\ \A q \in Readers : q # r => s4'[q] = s4[q]
           /\ s3'.drained = TRUE /\ s3'.body = b
           /\ s4'[r].result = IF op = "json" /\ s3.json # Body!Unset THEN s3.json ELSE b
           /\ s3'.json = IF op = "json" /\ s3.json = Body!Unset THEN b ELSE s3.json
           /\ \/ s5' = s5 /\ s3'.form = s3.form
              \/ s5' = s5 \cup {r} /\ s3'.form = {r} /\ (s3.form = {} \/ s4[r].at = "reading")
<1>1. CASE op = "json"
    <2> DEFINE v == IF s3.json = Body!Unset THEN b ELSE s3.json
    <2>1. /\ s4' = [s4 EXCEPT ![r] = [op |-> op, at |-> "done", parts |-> <<>>, result |-> v]]
          /\ s3' = [s3 EXCEPT !.drained = TRUE, !.body = b, !.json = v] /\ s5' = s5
        BY <1>1 DEF Body!Deliver
    <2>2. /\ DOMAIN s4' = Readers /\ \A q \in Readers : DOMAIN s4'[q] = {"op", "at", "parts", "result"}
          /\ s4'[r].at = "done" /\ s4'[r].result = v /\ \A q \in Readers : q # r => s4'[q] = s4[q]
        BY <2>1, DoneReader
    <2>3. s3'.drained = TRUE /\ s3'.body = b /\ s3'.json = v /\ s3'.form = s3.form /\ DOMAIN s3' = DOMAIN s3
        BY <2>1 DEF BodyShapes
    <2> QED
        BY <1>1, <2>1, <2>2, <2>3 DEF BodyShapes
<1>2. CASE op = "form"
    <2> DEFINE again == s3.form # {} /\ s4[r].at # "reading"
    <2>1. /\ s4' = [s4 EXCEPT ![r] = [op |-> op, at |-> "done", parts |-> <<>>, result |-> b]]
          /\ s3' = [s3 EXCEPT !.drained = TRUE, !.body = b, !.form = IF again THEN @ ELSE {r}]
          /\ s5' = IF again THEN s5 ELSE s5 \cup {r}
        BY <1>2 DEF Body!Deliver
    <2>2. /\ DOMAIN s4' = Readers /\ \A q \in Readers : DOMAIN s4'[q] = {"op", "at", "parts", "result"}
          /\ s4'[r].at = "done" /\ s4'[r].result = b /\ \A q \in Readers : q # r => s4'[q] = s4[q]
        BY <2>1, DoneReader
    <2>3. /\ s3'.drained = TRUE /\ s3'.body = b /\ s3'.json = s3.json /\ DOMAIN s3' = DOMAIN s3
          /\ s3'.form = IF again THEN s3.form ELSE {r}
        BY <2>1 DEF BodyShapes
    <2> QED
        BY <1>2, <2>1, <2>2, <2>3 DEF BodyShapes
<1>3. CASE op # "json" /\ op # "form"
    <2>1. /\ s4' = [s4 EXCEPT ![r] = [op |-> op, at |-> "done", parts |-> <<>>, result |-> b]]
          /\ s3' = [s3 EXCEPT !.drained = TRUE, !.body = b] /\ s5' = s5
        BY <1>3 DEF Body!Deliver
    <2>2. /\ DOMAIN s4' = Readers /\ \A q \in Readers : DOMAIN s4'[q] = {"op", "at", "parts", "result"}
          /\ s4'[r].at = "done" /\ s4'[r].result = b /\ \A q \in Readers : q # r => s4'[q] = s4[q]
        BY <2>1, DoneReader
    <2>3. s3'.drained = TRUE /\ s3'.body = b /\ s3'.json = s3.json /\ s3'.form = s3.form /\ DOMAIN s3' = DOMAIN s3
        BY <2>1 DEF BodyShapes
    <2> QED
        BY <1>3, <2>1, <2>2, <2>3 DEF BodyShapes
<1> QED
    BY <1>1, <1>2, <1>3

\* Delivering keeps what holds of forms and turns, when no other is reading.
LEMMA DeliverKeeps ==
    ASSUME BodyShapes, FormsKnown, NEW r \in Readers, NEW op, NEW b, Body!Deliver(r, op, b),
           DOMAIN s2' = DOMAIN s2, \A q \in Readers : q # r => s4[q].at # "reading",
           s4[r].at = "reading" => ~s3.drained
    PROVE  BodyShapes' /\ Turns' /\ FormsKnown'
<1>1. /\ DOMAIN s3' = {"drained", "body", "json", "form"}
      /\ DOMAIN s4' = Readers /\ \A q \in Readers : DOMAIN s4'[q] = {"op", "at", "parts", "result"}
      /\ s4'[r].at = "done" /\ \A q \in Readers : q # r => s4'[q] = s4[q]
      /\ s3'.drained = TRUE
      /\ \/ s5' = s5 /\ s3'.form = s3.form
         \/ s5' = s5 \cup {r} /\ s3'.form = {r} /\ (s3.form = {} \/ s4[r].at = "reading")
    BY Delivered
<1>2. BodyShapes'
    BY <1>1 DEF BodyShapes
<1>3. \A q \in Readers : s4'[q].at # "reading"
    BY <1>1
<1>4. Turns'
    BY <1>3 DEF Turns
<1>5. s4[r].at = "reading" => s3.form = {}
    BY DEF FormsKnown
<1>6. s5' \subseteq s3'.form
    BY <1>1, <1>5 DEF FormsKnown
<1>7. s3'.drained
    BY <1>1, Zenon
<1> QED
    BY <1>2, <1>4, <1>6, <1>7 DEF FormsKnown

\* Whatever a reader makes of a body, the request is drained by it.
LEMMA DrainedNow ==
    ASSUME BodyShapes, NEW r \in Readers, NEW op, NEW b, Body!Deliver(r, op, b)
    PROVE  s3'.drained /\ s3'.body = b
<1>1. s3'.drained = TRUE
    BY Delivered
<1>2. s3'.body = b
    BY DEF Body!Deliver, BodyShapes
<1> QED
    BY <1>1, <1>2, Zenon

\* Readers that take their turn: what one delivers is what all the others have.
LEMMA DeliverInTurn ==
    ASSUME BodyShapes, NEW r \in Readers, NEW op, NEW b, Body!Deliver(r, op, b),
           s1' \in Seq(Messages), s2'.max \in Nat, s2'.done, s3.json \in {Body!Unset, b},
           b \in Body!Prefixes, Len(b) <= s2'.max, b \in Body!Cut => s2'.disconnected,
           \A q \in Readers : q # r => s4[q].at \in {"idle", "done"} /\ (s4[q].at = "done" => s4[q].result = b)
    PROVE  Reading' /\ Drained'
<1>1. /\ s4'[r].at = "done" /\ \A q \in Readers : q # r => s4'[q] = s4[q]
      /\ s3'.body = b
    <2>1. s4'[r].at = "done"
        BY Delivered
    <2>2. \A q \in Readers : q # r => s4'[q] = s4[q]
        BY Delivered
    <2>3. s3'.body = b
        BY DrainedNow, Zenon
    <2> QED
        BY <2>1, <2>2, <2>3, Zenon
<1>2. s3'.drained
    BY DrainedNow
<1>3. s4'[r].result = b /\ s3'.json \in {Body!Unset, s3'.body}
    <2>1. s4'[r].result = IF op = "json" /\ s3.json # Body!Unset THEN s3.json ELSE b
        BY Delivered, ZenonT(40)
    <2>2. s3'.json = IF op = "json" /\ s3.json = Body!Unset THEN b ELSE s3.json
        BY Delivered, ZenonT(40)
    <2> QED
        BY <1>1, <2>1, <2>2
<1>4. \A q \in Readers : s4'[q].at \in {"idle", "done"} /\ (s4'[q].at = "done" => s4'[q].result = s3'.body)
    BY <1>1, <1>3
<1>5. Reading'
    BY <1>4 DEF Reading
<1>6. (Arrived(s3.body))'
    BY <1>1 DEF Arrived, Body!Prefixes, Body!Cut
<1> QED
    BY <1>2, <1>3, <1>4, <1>5, <1>6 DEF Drained

-----------------------------------------------------------------------------
\* The chunks that have come are a prefix of the body.
LEMMA ChunksAreTexts == Chunks \in Seq(Texts) /\ Len(Chunks) \in Nat
<1>1. Chunks \in Seq(Texts)
    BY ServicesAssumption DEF Body!BodyAssumption, Texts
<1> QED
    BY <1>1, LenProperties

LEMMA PrefixLen ==
    ASSUME NEW n \in 0 .. Len(Chunks)
    PROVE  /\ SubSeq(Chunks, 1, n) \in Seq(Texts) /\ Len(SubSeq(Chunks, 1, n)) = n
           /\ \A i \in 1 .. n : SubSeq(Chunks, 1, n)[i] = Chunks[i]
<1>1. Chunks \in Seq(Texts) /\ Len(Chunks) \in Nat
    BY ChunksAreTexts
<1>2. /\ 1 \in 1 .. Len(Chunks) + 1 /\ n \in 1 - 1 .. Len(Chunks)
    BY <1>1
<1>3. /\ SubSeq(Chunks, 1, n) \in Seq(Texts)
      /\ Len(SubSeq(Chunks, 1, n)) = n - 1 + 1
      /\ \A i \in 1 .. n - 1 + 1 : SubSeq(Chunks, 1, n)[i] = Chunks[1 + i - 1]
    BY <1>1, <1>2, SubSeqProperties
<1> QED
    BY <1>3

LEMMA OneMore ==
    ASSUME NEW n \in 0 .. Len(Chunks), n < Len(Chunks)
    PROVE  SubSeq(Chunks, 1, n) \o <<Chunks[n + 1]>> = SubSeq(Chunks, 1, n + 1)
<1>1. Chunks \in Seq(Texts) /\ Len(Chunks) \in Nat
    BY ChunksAreTexts
<1>2. n \in Nat /\ n + 1 \in 0 .. Len(Chunks) /\ n + 1 \in 1 .. Len(Chunks)
    BY <1>1
<1>3. PICK p \in Seq(Texts) : p = SubSeq(Chunks, 1, n) /\ Len(p) = n /\ \A i \in 1 .. n : p[i] = Chunks[i]
    BY PrefixLen
<1>4. PICK q \in Seq(Texts) : q = SubSeq(Chunks, 1, n + 1) /\ Len(q) = n + 1 /\ \A i \in 1 .. n + 1 : q[i] = Chunks[i]
    BY <1>2, PrefixLen
<1>5. Chunks[n + 1] \in Texts
    BY <1>1, <1>2, ElementOfSeq
<1>6. p \o <<Chunks[n + 1]>> = Append(p, Chunks[n + 1])
    BY <1>5, AppendIsConcat
<1>7. PICK r \in Seq(Texts) : /\ r = Append(p, Chunks[n + 1]) /\ Len(r) = Len(p) + 1 /\ Len(p) \in Nat
                              /\ DOMAIN r = 1 .. Len(p) + 1 /\ DOMAIN p = 1 .. Len(p)
                              /\ r[Len(p) + 1] = Chunks[n + 1] /\ \A j \in 1 .. Len(p) : r[j] = p[j]
    BY <1>5, Appended
<1>8. Len(r) = n + 1 /\ r[n + 1] = Chunks[n + 1] /\ \A j \in 1 .. n : r[j] = Chunks[j]
    BY <1>3, <1>7
<1>9. \A j \in 1 .. n + 1 : r[j] = q[j]
    <2>1. \A j \in 1 .. n + 1 : j = n + 1 \/ j \in 1 .. n
        BY <1>2
    <2> QED
        BY <1>4, <1>8, <2>1
<1>10. r = q
    BY <1>4, <1>8, <1>9, SeqEqual
<1> QED
    BY <1>3, <1>4, <1>6, <1>7, <1>10

-----------------------------------------------------------------------------
\* The next message, and the rest of them.
LEMMA NextMessage ==
    ASSUME s1 \in Seq(Messages), s1 # <<>>, Coming, ~s2.done, s2.size \in 0 .. Len(Chunks)
    PROVE  /\ Tail(s1) \in Seq(Messages)
           /\ \/ Head(s1) = Body!Message("disconnect", <<>>, FALSE)
              \/ /\ s2.size + 1 <= Len(Chunks)
                 /\ Head(s1) = Body!Message("request", <<Chunks[s2.size + 1]>>, s2.size + 1 < Len(Chunks))
           /\ \A i \in 1 .. Len(Tail(s1)) :
                 \/ Tail(s1)[i] = Body!Message("disconnect", <<>>, FALSE)
                 \/ /\ s2.size + 1 + i <= Len(Chunks)
                    /\ Tail(s1)[i] = Body!Message("request", <<Chunks[s2.size + 1 + i]>>, s2.size + 1 + i < Len(Chunks))
<1>1. /\ Tail(s1) \in Seq(Messages) /\ Len(Tail(s1)) = Len(s1) - 1
      /\ \A i \in 1 .. Len(Tail(s1)) : Tail(s1)[i] = s1[i + 1]
    BY HeadTailProperties
<1>2. Len(s1) \in Nat /\ Len(s1) >= 1 /\ Head(s1) = s1[1]
    BY EmptySeq, LenProperties
<1>3. PICK k \in Nat : k = s2.size
    BY ChunksAreTexts
<1>4. PICK n \in Nat : n = Len(s1) /\ n >= 1
    BY <1>2
<1>5. \A i \in 1 .. n :
        \/ s1[i] = Body!Message("disconnect", <<>>, FALSE)
        \/ /\ k + i <= Len(Chunks)
           /\ s1[i] = Body!Message("request", <<Chunks[k + i]>>, k + i < Len(Chunks))
    BY <1>3, <1>4 DEF Coming
<1>6. \/ s1[1] = Body!Message("disconnect", <<>>, FALSE)
      \/ /\ k + 1 <= Len(Chunks)
         /\ s1[1] = Body!Message("request", <<Chunks[k + 1]>>, k + 1 < Len(Chunks))
    <2>1. PICK j \in 1 .. n : j = 1
        BY <1>4
    <2>2. \/ s1[j] = Body!Message("disconnect", <<>>, FALSE)
          \/ /\ k + j <= Len(Chunks)
             /\ s1[j] = Body!Message("request", <<Chunks[k + j]>>, k + j < Len(Chunks))
        BY <1>5
    <2> QED
        BY <2>1, <2>2
<1>7. ASSUME NEW i \in 1 .. n - 1
      PROVE  \/ s1[i + 1] = Body!Message("disconnect", <<>>, FALSE)
             \/ /\ k + 1 + i <= Len(Chunks)
                /\ s1[i + 1] = Body!Message("request", <<Chunks[k + 1 + i]>>, k + 1 + i < Len(Chunks))
    <2>1. PICK j \in 1 .. n : j = i + 1
        BY <1>4
    <2>2. k + j = k + 1 + i
        BY <2>1
    <2>3. \/ s1[j] = Body!Message("disconnect", <<>>, FALSE)
          \/ /\ k + j <= Len(Chunks)
             /\ s1[j] = Body!Message("request", <<Chunks[k + j]>>, k + j < Len(Chunks))
        BY <1>5
    <2> QED
        BY <2>1, <2>2, <2>3
<1>8. Len(Tail(s1)) = n - 1
    BY <1>1, <1>4
<1> QED
    BY <1>1, <1>2, <1>3, <1>6, <1>7, <1>8

\* What a message does to the source.
LEMMA Taken ==
    ASSUME BodyShapes, NEW m, s2' = Body!Take(s2, m), DOMAIN m = {"kind", "chunk", "more"}
    PROVE  /\ DOMAIN s2' = DOMAIN s2 /\ s2'.max = s2.max /\ s2'.size = s2.size + Len(m.chunk)
           /\ s2'.done = ~m.more /\ s2'.disconnected = (m.kind = "disconnect")
BY DEF Body!Take, BodyShapes

-----------------------------------------------------------------------------
\* An operation begins.
LEMMA BeginStep ==
    ASSUME BodyInv, NEW r \in Readers, NEW op \in Body!Operations, Body!Begin(r, op)
    PROVE  BodyInv'
<1>1. SUFFICES ASSUME s6 # "together" PROVE BodyInv'
    BY DEF BodyInv, Body!Begin
<1>2. /\ UNCHANGED <<s1, s2, s6>> /\ s4[r].at = "idle"
      /\ \A q \in Readers : s4[q].at \in {"idle", "done"}
    BY <1>1 DEF Body!Begin
<1>3. BodyShapes /\ Turns /\ FormsKnown
    BY <1>1 DEF BodyInv
<1>4. \A q \in Readers : s4[q].at # "reading"
    BY <1>2
<1>5. ASSUME s6 = "in turn"
      PROVE  Reading /\ Drained /\ op # "stream"
    BY <1>5 DEF BodyInv, Body!Operations
<1>6. CASE s3.drained /\ Body!Deliver(r, op, s3.body)
    <2>1. DOMAIN s2' = DOMAIN s2
        BY <1>2
    <2>2. BodyShapes' /\ Turns' /\ FormsKnown'
        BY <1>3, <1>4, <1>2, <1>6, <2>1, DeliverKeeps
    <2>3. ASSUME s6 = "in turn" PROVE Reading' /\ Drained'
        <3>1. s1' \in Seq(Messages) /\ s2'.max \in Nat /\ s2'.done
            BY <1>2, <1>5, <1>6, <2>3 DEF Reading
        <3>2. /\ s3.json \in {Body!Unset, s3.body} /\ Arrived(s3.body)
              /\ \A q \in Readers : s4[q].at = "done" => s4[q].result = s3.body
            BY <1>5, <1>6, <2>3 DEF Drained
        <3>3. s3.body \in Body!Prefixes /\ Len(s3.body) <= s2'.max /\ (s3.body \in Body!Cut => s2'.disconnected)
            BY <1>2, <3>2 DEF Arrived
        <3> QED
            BY <1>2, <1>3, <1>6, <3>1, <3>2, <3>3, DeliverInTurn
    <2> QED
        BY <1>2, <2>2, <2>3 DEF BodyInv
<1>7. CASE ~s3.drained /\ s2.done /\ Body!Deliver(r, op, <<>>) /\ op # "stream"
    <2>1. DOMAIN s2' = DOMAIN s2
        BY <1>2
    <2>2. BodyShapes' /\ Turns' /\ FormsKnown'
        BY <1>3, <1>4, <1>2, <1>7, <2>1, DeliverKeeps
    <2>3. s6 # "in turn"
        <3>1. SUFFICES ASSUME s6 = "in turn" PROVE FALSE
            OBVIOUS
        <3>2. \E q \in Readers : s4[q].at = "failed"
            BY <1>5, <1>7, <3>1 DEF Drained
        <3> QED
            BY <1>2, <3>2
    <2> QED
        BY <1>2, <2>2, <2>3 DEF BodyInv
<1>8. CASE /\ ~s3.drained /\ (s2.done => op = "stream") /\ UNCHANGED <<s3, s5>>
           /\ s4' = [s4 EXCEPT ![r] = [Body!Idle EXCEPT !.op = op, !.at = "reading"]]
    <2>1. /\ DOMAIN s4' = Readers /\ \A q \in Readers : q # r => s4'[q] = s4[q]
          /\ s4'[r] = [op |-> op, at |-> "reading", parts |-> <<>>, result |-> Body!Unset]
        BY <1>3, <1>8 DEF BodyShapes, Body!Idle
    <2>2. /\ DOMAIN s4'[r] = {"op", "at", "parts", "result"} /\ s4'[r].op = op /\ s4'[r].at = "reading"
          /\ s4'[r].parts = <<>>
        BY <2>1
    <2>3. BodyShapes' /\ FormsKnown'
        BY <1>2, <1>3, <1>8, <2>1, <2>2 DEF BodyShapes, FormsKnown
    <2>4. Turns'
        BY <1>2, <1>8, <2>1, <2>2 DEF Turns
    <2>5. ASSUME s6 = "in turn" PROVE Reading' /\ Drained'
        <3>1. Reading /\ Drained /\ ~s2.done /\ s2.size = 0
            BY <1>2, <1>5, <1>8, <2>5 DEF Reading
        <3>2. Coming'
            BY <1>2, <3>1 DEF Reading, Coming
        <3>3. SubSeq(Chunks, 1, 0) = <<>>
            BY SubSeqEmpty
        <3>4. s2.size <= s2.max
            BY <3>1 DEF Reading
        <3>5. Reading'
            BY <1>2, <1>5, <1>8, <2>1, <2>2, <2>5, <3>1, <3>2, <3>3, <3>4 DEF Reading
        <3>6. Drained'
            BY <1>2, <1>8, <2>1, <2>2, <3>1 DEF Drained
        <3> QED
            BY <3>5, <3>6
    <2> QED
        BY <1>2, <2>3, <2>4, <2>5 DEF BodyInv
<1> QED
    BY <1>6, <1>7, <1>8 DEF Body!Begin

\* Polling for a disconnect: only once the body is in.
LEMMA PollStep == BodyInv /\ Body!Poll => BodyInv'
<1>1. SUFFICES ASSUME BodyInv, Body!Poll, s6 # "together" PROVE BodyInv'
    BY DEF BodyInv, Body!Poll
<1>2. /\ UNCHANGED <<s3, s4, s5, s6>> /\ s2.done /\ ~s2.disconnected /\ s1 # <<>> /\ s1' = Tail(s1)
      /\ s2' = [s2 EXCEPT !.disconnected = Head(s1).kind = "disconnect"]
    BY <1>1 DEF Body!Poll
<1>3. BodyShapes /\ Turns /\ FormsKnown
    BY <1>1 DEF BodyInv
<1>4. DOMAIN s2' = DOMAIN s2 /\ s2'.done = s2.done /\ s2'.max = s2.max
    BY <1>2, <1>3 DEF BodyShapes
<1>5. BodyShapes' /\ Turns' /\ FormsKnown'
    BY <1>2, <1>3, <1>4 DEF BodyShapes, Turns, FormsKnown
<1>6. ASSUME s6 = "in turn" PROVE Reading' /\ Drained'
    <2>1. Reading /\ Drained
        BY <1>1, <1>6 DEF BodyInv
    <2>2. s2'.done
        BY <1>2, <1>4, Zenon
    <2>3. s1' \in Seq(Messages)
        BY <1>2, <2>1, HeadTailProperties DEF Reading
    <2>4. \A r \in Readers : s4[r].at # "reading"
        BY <1>2, <2>1 DEF Reading
    <2>5. Reading'
        BY <1>2, <1>4, <2>1, <2>2, <2>3, <2>4 DEF Reading
    <2>6. s3.drained => (Arrived(s3.body))'
        BY <1>2, <1>4, <2>1 DEF Drained, Arrived, Body!Prefixes, Body!Cut
    <2>7. Drained'
        BY <1>2, <2>1, <2>2, <2>6 DEF Drained
    <2> QED
        BY <2>5, <2>7
<1> QED
    BY <1>2, <1>5, <1>6 DEF BodyInv

\* The request ends: the form it holds is closed.
LEMMA CloseStep == BodyInv /\ Body!Close => BodyInv'
<1>1. SUFFICES ASSUME BodyInv, Body!Close, s6 # "together" PROVE BodyInv'
    BY DEF BodyInv, Body!Close
<1>2. UNCHANGED <<s1, s2, s3, s4, s6>> /\ s5' = s5 \ s3.form
    BY <1>1 DEF Body!Close
<1>3. BodyShapes' /\ Turns' /\ FormsKnown'
    BY <1>1, <1>2 DEF BodyInv, BodyShapes, Turns, FormsKnown
<1>4. s6 = "in turn" => Reading' /\ Drained'
    BY <1>1, <1>2 DEF BodyInv, Reading, Drained, Coming, Arrived, Body!Prefixes, Body!Cut
<1> QED
    BY <1>2, <1>3, <1>4 DEF BodyInv

\* A reader finds the source at its end: not one that takes its turn.
LEMMA AtEndStep ==
    ASSUME BodyInv, NEW r \in Readers, Body!AtEnd(r)
    PROVE  BodyInv'
<1>1. SUFFICES ASSUME s6 # "together" PROVE BodyInv'
    BY DEF BodyInv, Body!AtEnd
<1>2. UNCHANGED <<s1, s2, s6>> /\ s4[r].at = "reading" /\ s2.done
    BY DEF Body!AtEnd
<1>3. BodyShapes /\ Turns /\ FormsKnown
    BY <1>1 DEF BodyInv
<1>4. s6 # "in turn"
    BY <1>2 DEF BodyInv, Reading
<1>5. \A q \in Readers : q # r => s4[q].at # "reading"
    BY <1>2, <1>3 DEF Turns
<1>6. CASE Body!Deliver(r, s4[r].op, s4[r].parts)
    <2>1. DOMAIN s2' = DOMAIN s2
        BY <1>2
    <2>2. s4[r].at = "reading" => ~s3.drained
        BY <1>3 DEF Turns
    <2>3. BodyShapes' /\ Turns' /\ FormsKnown'
        BY <1>3, <1>5, <1>6, <2>1, <2>2, DeliverKeeps
    <2> QED
        BY <1>2, <1>4, <2>3 DEF BodyInv
<1>7. CASE /\ s4' = [s4 EXCEPT ![r].at = "done", ![r].result = s4[r].parts]
           /\ s3' = [s3 EXCEPT !.drained = TRUE] /\ UNCHANGED s5
    <2>1. /\ DOMAIN s4' = Readers /\ \A q \in Readers : q # r => s4'[q] = s4[q]
          /\ DOMAIN s4'[r] = DOMAIN s4[r] /\ s4'[r].at = "done"
        BY <1>3, <1>7 DEF BodyShapes
    <2>2. DOMAIN s3' = DOMAIN s3 /\ s3'.drained = TRUE /\ s3'.form = s3.form
        BY <1>3, <1>7 DEF BodyShapes
    <2>3. s3'.drained
        BY <2>2, Zenon
    <2>4. \A q \in Readers : s4'[q].at # "reading"
        BY <1>5, <2>1
    <2>5. Turns'
        BY <2>4 DEF Turns
    <2>6. BodyShapes' /\ FormsKnown'
        BY <1>2, <1>3, <1>7, <2>1, <2>2, <2>3 DEF BodyShapes, FormsKnown
    <2> QED
        BY <1>2, <1>4, <2>5, <2>6 DEF BodyInv
<1> QED
    BY <1>6, <1>7 DEF Body!AtEnd

\* A disconnect, or a chunk within the limit that ends the body: what the reader
\* has then is what arrived.
LEMMA EndOfBody ==
    ASSUME Reading, ~s2.done, BodyShapes,
           NEW r \in Readers, s4[r].at = "reading", s1 # <<>>, s2' = Body!Take(s2, Head(s1)),
           ~(s2'.size > s2'.max), s2'.done
    PROVE  /\ s4[r].parts \o Head(s1).chunk \in Body!Prefixes
           /\ Len(s4[r].parts \o Head(s1).chunk) <= s2'.max
           /\ s4[r].parts \o Head(s1).chunk \in Body!Cut => s2'.disconnected
<1>1. /\ s1 \in Seq(Messages) /\ Coming /\ s2.size \in 0 .. Len(Chunks) /\ s2.max \in Nat
      /\ s2.size <= s2.max /\ s4[r].parts = SubSeq(Chunks, 1, s2.size)
    BY DEF Reading
<1>2. Len(Chunks) \in Nat
    BY ChunksAreTexts
<1>3. PICK k \in 0 .. Len(Chunks) : k = s2.size
    BY <1>1
<1>4. PICK p \in Seq(Texts) : p = SubSeq(Chunks, 1, k) /\ Len(p) = k
    BY PrefixLen
<1>5. CASE Head(s1) = Body!Message("disconnect", <<>>, FALSE)
    <2>1. /\ DOMAIN Head(s1) = {"kind", "chunk", "more"} /\ Head(s1).chunk = <<>>
          /\ Head(s1).kind = "disconnect"
        BY <1>5 DEF Body!Message
    <2>2. s2'.max = s2.max /\ s2'.disconnected = (Head(s1).kind = "disconnect")
        BY <2>1, Taken
    <2>3. s2'.disconnected
        BY <2>1, <2>2, Zenon
    <2>4. p \o <<>> = p
        OBVIOUS
    <2>5. s4[r].parts \o Head(s1).chunk = SubSeq(Chunks, 1, k)
        BY <1>1, <1>3, <1>4, <2>1, <2>4
    <2>6. Len(SubSeq(Chunks, 1, k)) <= s2'.max
        BY <1>1, <1>3, <1>4, <2>2
    <2> QED
        BY <2>3, <2>5, <2>6 DEF Body!Prefixes
<1>6. CASE /\ s2.size + 1 <= Len(Chunks)
           /\ Head(s1) = Body!Message("request", <<Chunks[s2.size + 1]>>, s2.size + 1 < Len(Chunks))
    <2>1. /\ DOMAIN Head(s1) = {"kind", "chunk", "more"} /\ Head(s1).chunk = <<Chunks[k + 1]>>
          /\ Head(s1).more = (k + 1 < Len(Chunks))
        BY <1>3, <1>6 DEF Body!Message
    <2>2. s2'.max = s2.max /\ s2'.size = s2.size + Len(Head(s1).chunk) /\ s2'.done = ~Head(s1).more
        BY <2>1, Taken
    <2>3. ~(k + 1 < Len(Chunks))
        BY <2>1, <2>2, Zenon
    <2>4. k + 1 = Len(Chunks) /\ k < Len(Chunks)
        BY <1>2, <1>3, <1>6, <2>3
    <2>5. p \o <<Chunks[k + 1]>> = SubSeq(Chunks, 1, k + 1)
        BY <1>4, <2>4, OneMore
    <2>6. s4[r].parts \o Head(s1).chunk = SubSeq(Chunks, 1, Len(Chunks))
        BY <1>1, <1>3, <1>4, <2>1, <2>4, <2>5
    <2>7. Len(<<Chunks[k + 1]>>) = 1
        OBVIOUS
    <2>8. s2'.size = k + 1
        BY <1>3, <2>1, <2>2, <2>7
    <2>9. Len(SubSeq(Chunks, 1, Len(Chunks))) = Len(Chunks) /\ Len(Chunks) \in 0 .. Len(Chunks)
        BY <1>2, PrefixLen
    <2>10. Len(SubSeq(Chunks, 1, Len(Chunks))) <= s2'.max
        BY <1>1, <2>2, <2>4, <2>8, <2>9
    <2>11. SubSeq(Chunks, 1, Len(Chunks)) \notin Body!Cut
        <3>1. SUFFICES ASSUME NEW n \in 0 .. Len(Chunks) - 1,
                              SubSeq(Chunks, 1, Len(Chunks)) = SubSeq(Chunks, 1, n)
                       PROVE  FALSE
            BY DEF Body!Cut
        <3>2. n \in 0 .. Len(Chunks) /\ n # Len(Chunks)
            BY <1>2
        <3>3. Len(SubSeq(Chunks, 1, n)) = n
            BY <3>2, PrefixLen
        <3> QED
            BY <2>9, <3>1, <3>2, <3>3
    <2> QED
        BY <2>6, <2>9, <2>10, <2>11 DEF Body!Prefixes
<1> QED
    BY <1>1, <1>5, <1>6, NextMessage

\* A message that does not end the body: the reader has one chunk more, and the
\* rest is to come.
LEMMA MoreOfBody ==
    ASSUME Reading, ~s2.done, BodyShapes,
           NEW r \in Readers, s4[r].at = "reading", s1 # <<>>, s2' = Body!Take(s2, Head(s1)),
           s1' = Tail(s1), ~s2'.done
    PROVE  /\ Coming' /\ s2'.size \in 0 .. Len(Chunks)
           /\ s4[r].parts \o Head(s1).chunk = SubSeq(Chunks, 1, s2'.size)
<1>1. /\ s1 \in Seq(Messages) /\ Coming /\ s2.size \in 0 .. Len(Chunks)
      /\ s4[r].parts = SubSeq(Chunks, 1, s2.size)
    BY DEF Reading
<1>2. Len(Chunks) \in Nat
    BY ChunksAreTexts
<1>3. PICK k \in 0 .. Len(Chunks) : k = s2.size
    BY <1>1
<1>4. Head(s1) # Body!Message("disconnect", <<>>, FALSE)
    <2>1. SUFFICES ASSUME Head(s1) = Body!Message("disconnect", <<>>, FALSE) PROVE FALSE
        OBVIOUS
    <2>2. DOMAIN Head(s1) = {"kind", "chunk", "more"} /\ Head(s1).more = FALSE
        BY <2>1 DEF Body!Message
    <2>3. s2'.done = ~Head(s1).more
        BY <2>2, Taken
    <2> QED
        BY <2>2, <2>3, Zenon
<1>5. /\ s2.size + 1 <= Len(Chunks)
      /\ Head(s1) = Body!Message("request", <<Chunks[s2.size + 1]>>, s2.size + 1 < Len(Chunks))
    BY <1>1, <1>4, NextMessage
<1>6. DOMAIN Head(s1) = {"kind", "chunk", "more"} /\ Head(s1).chunk = <<Chunks[k + 1]>>
    BY <1>3, <1>5 DEF Body!Message
<1>7. s2'.size = s2.size + Len(Head(s1).chunk)
    BY <1>6, Taken
<1>8. Len(<<Chunks[k + 1]>>) = 1
    OBVIOUS
<1>9. s2'.size = k + 1 /\ k + 1 \in 0 .. Len(Chunks) /\ k < Len(Chunks)
    <2>1. Len(Head(s1).chunk) = 1
        BY <1>6, <1>8
    <2>2. s2'.size = k + 1
        BY <1>3, <1>7, <2>1
    <2>3. k + 1 <= Len(Chunks)
        BY <1>3, <1>5
    <2> QED
        BY <1>2, <2>2, <2>3
<1>10. s4[r].parts \o Head(s1).chunk = SubSeq(Chunks, 1, s2'.size)
    BY <1>1, <1>3, <1>6, <1>9, OneMore
<1>11. \A i \in 1 .. Len(Tail(s1)) :
          \/ Tail(s1)[i] = Body!Message("disconnect", <<>>, FALSE)
          \/ /\ s2.size + 1 + i <= Len(Chunks)
             /\ Tail(s1)[i] = Body!Message("request", <<Chunks[s2.size + 1 + i]>>, s2.size + 1 + i < Len(Chunks))
    BY <1>1, NextMessage
<1>12. s2'.size = s2.size + 1
    BY <1>3, <1>9
<1>13. Coming'
    BY <1>11, <1>12 DEF Coming
<1> QED
    BY <1>9, <1>10, <1>13

\* A reader takes a message: the body is too long, at its end, or goes on.
LEMMA TakeStep ==
    ASSUME BodyInv, NEW r \in Readers, Body!Receive(r)
    PROVE  BodyInv'
<1>1. SUFFICES ASSUME s6 # "together" PROVE BodyInv'
    BY DEF BodyInv, Body!Receive
<1> DEFINE m == Head(s1)
           had == s4[r].parts \o m.chunk
<1>2. /\ UNCHANGED s6 /\ s4[r].at = "reading" /\ ~s2.done /\ s1 # <<>> /\ s1' = Tail(s1)
      /\ s2' = Body!Take(s2, m)
    BY DEF Body!Receive
<1>3. BodyShapes /\ Turns /\ FormsKnown
    BY <1>1 DEF BodyInv
<1>4. DOMAIN s2' = DOMAIN s2 /\ s2'.max = s2.max
    BY <1>2, <1>3 DEF Body!Take, BodyShapes
<1>5. ~s3.drained /\ \A q \in Readers : q # r => s4[q].at \in {"idle", "done"}
    BY <1>2, <1>3 DEF Turns
<1>6. ASSUME s6 = "in turn"
      PROVE  /\ Reading /\ Drained /\ s4[r].op # "stream" /\ s1' \in Seq(Messages) /\ s2'.max \in Nat
             /\ s3.json = Body!Unset /\ \A q \in Readers : s4[q].at # "done"
    <2>1. Reading /\ Drained
        BY <1>6 DEF BodyInv
    <2>2. s1' \in Seq(Messages)
        BY <1>2, <2>1, HeadTailProperties DEF Reading
    <2> QED
        BY <1>2, <1>4, <1>5, <2>1, <2>2 DEF Reading, Drained
<1>7. CASE s2'.size > s2'.max /\ s4' = [s4 EXCEPT ![r].at = "failed"] /\ UNCHANGED <<s3, s5>>
    <2>1. /\ DOMAIN s4' = Readers /\ \A q \in Readers : q # r => s4'[q] = s4[q]
          /\ DOMAIN s4'[r] = DOMAIN s4[r] /\ s4'[r].at = "failed"
        BY <1>3, <1>7 DEF BodyShapes
    <2>2. \A q \in Readers : s4'[q].at # "reading"
        BY <1>5, <2>1
    <2>3. BodyShapes' /\ Turns' /\ FormsKnown'
        BY <1>3, <1>4, <1>7, <2>1, <2>2 DEF BodyShapes, Turns, FormsKnown
    <2>4. ASSUME s6 = "in turn" PROVE Reading' /\ Drained'
        <3>1. ~s2'.done => Coming' /\ s2'.size \in 0 .. Len(Chunks)
            BY <1>2, <1>3, <1>6, <2>4, MoreOfBody
        <3>2. Reading'
            BY <1>5, <1>6, <1>7, <2>1, <2>2, <2>4, <3>1 DEF Reading
        <3>3. Drained'
            BY <1>5, <1>6, <1>7, <2>1, <2>4 DEF Drained
        <3> QED
            BY <3>2, <3>3
    <2> QED
        BY <1>2, <2>3, <2>4 DEF BodyInv
<1>8. CASE ~(s2'.size > s2'.max) /\ s2'.done /\ Body!Deliver(r, s4[r].op, had)
    <2>1. \A q \in Readers : q # r => s4[q].at # "reading"
        BY <1>5
    <2>2. BodyShapes' /\ Turns' /\ FormsKnown'
        BY <1>3, <1>4, <1>5, <1>8, <2>1, DeliverKeeps
    <2>3. ASSUME s6 = "in turn" PROVE Reading' /\ Drained'
        <3>1. had \in Body!Prefixes /\ Len(had) <= s2'.max /\ (had \in Body!Cut => s2'.disconnected)
            BY <1>2, <1>3, <1>6, <1>8, <2>3, EndOfBody
        <3>2. s3.json \in {Body!Unset, had}
            BY <1>6, <2>3
        <3>3. \A q \in Readers : q # r => s4[q].at \in {"idle", "done"} /\ (s4[q].at = "done" => s4[q].result = had)
            BY <1>5, <1>6, <2>3
        <3>4. s1' \in Seq(Messages) /\ s2'.max \in Nat
            BY <1>6, <2>3
        <3> HIDE DEF had
        <3> QED
            BY <1>3, <1>8, <3>1, <3>2, <3>3, <3>4, DeliverInTurn
    <2> QED
        BY <1>2, <2>2, <2>3 DEF BodyInv
<1>9. CASE /\ ~(s2'.size > s2'.max) /\ ~(s2'.done /\ s4[r].op # "stream")
           /\ s4' = [s4 EXCEPT ![r].parts = had] /\ UNCHANGED <<s3, s5>>
    <2>1. /\ DOMAIN s4' = Readers /\ \A q \in Readers : q # r => s4'[q] = s4[q]
          /\ DOMAIN s4'[r] = DOMAIN s4[r] /\ s4'[r].at = "reading" /\ s4'[r].op = s4[r].op /\ s4'[r].parts = had
        BY <1>2, <1>3, <1>9 DEF BodyShapes
    <2>2. BodyShapes' /\ Turns' /\ FormsKnown'
        BY <1>3, <1>4, <1>5, <1>9, <2>1 DEF BodyShapes, Turns, FormsKnown
    <2>3. ASSUME s6 = "in turn" PROVE Reading' /\ Drained'
        <3>1. ~s2'.done
            BY <1>6, <1>9, <2>3
        <3>2. Coming' /\ s2'.size \in 0 .. Len(Chunks) /\ had = SubSeq(Chunks, 1, s2'.size)
            BY <1>2, <1>3, <1>6, <2>3, <3>1, MoreOfBody
        <3>3. s2'.size <= s2'.max
            <4>1. PICK a \in 0 .. Len(Chunks) : a = s2'.size
                BY <3>2
            <4>2. PICK b \in Nat : b = s2'.max
                BY <1>6, <2>3
            <4>3. ~(a > b)
                BY <1>9, <4>1, <4>2
            <4>4. a <= b
                BY <4>3, ChunksAreTexts
            <4> QED
                BY <4>1, <4>2, <4>4
        <3>4. \A q \in Readers : s4'[q].at = "reading" => q = r
            BY <1>5, <2>1
        <3> HIDE DEF had
        <3>5. Reading'
            BY <1>5, <1>6, <1>9, <2>1, <2>3, <3>1, <3>2, <3>3, <3>4 DEF Reading
        <3>6. Drained'
            BY <1>5, <1>6, <1>9, <2>1, <2>3, <3>1 DEF Drained
        <3> QED
            BY <3>5, <3>6
    <2> QED
        BY <1>2, <2>2, <2>3 DEF BodyInv
<1>10. IF s2'.size > s2.max
       THEN s4' = [s4 EXCEPT ![r].at = "failed"] /\ UNCHANGED <<s3, s5>>
       ELSE IF s2'.done /\ s4[r].op # "stream" THEN Body!Deliver(r, s4[r].op, had)
       ELSE s4' = [s4 EXCEPT ![r].parts = had] /\ UNCHANGED <<s3, s5>>
    BY <1>2 DEF Body!Receive
<1> QED
    BY <1>4, <1>7, <1>8, <1>9, <1>10

\* Every step of the readers keeps their invariant.
LEMMA BodyStep == BodyInv /\ Body!Next => BodyInv'
BY BeginStep, TakeStep, AtEndStep, PollStep, CloseStep DEF Body!Next

LEMMA BodyStart == Body!Init => BodyInv
<1>1. SUFFICES ASSUME Body!Init PROVE BodyInv
    OBVIOUS
<1>2. /\ DOMAIN s2 = {"done", "disconnected", "size", "max"} /\ s2.size = 0 /\ s2.max \in ReadLimits
      /\ s2.done = FALSE
    BY <1>1 DEF Body!Init
<1>3. /\ s3 = [drained |-> FALSE, body |-> <<>>, json |-> Body!Unset, form |-> {}]
      /\ s4 = [r \in Readers |-> Body!Idle] /\ s5 = {}
    BY <1>1 DEF Body!Init
<1>4. DOMAIN s3 = {"drained", "body", "json", "form"} /\ s3.drained = FALSE /\ s3.json = Body!Unset /\ s3.form = {}
    BY <1>3
<1>5. /\ DOMAIN s4 = Readers
      /\ \A r \in Readers : DOMAIN s4[r] = {"op", "at", "parts", "result"} /\ s4[r].at = "idle"
    BY <1>3 DEF Body!Idle
<1>6. ~s3.drained /\ ~s2.done
    BY <1>2, <1>4, Zenon
<1>7. BodyShapes /\ Turns /\ FormsKnown
    BY <1>2, <1>3, <1>4, <1>5 DEF BodyShapes, Turns, FormsKnown
<1>8. Chunks \in Seq(Texts) /\ Len(Chunks) \in Nat /\ DOMAIN Chunks = 1 .. Len(Chunks)
    BY ChunksAreTexts, LenProperties
<1>9. \A i \in 1 .. Len(Chunks) :
         Body!Message("request", <<Chunks[i]>>, i < Len(Chunks)) \in Messages
    <2>1. SUFFICES ASSUME NEW i \in 1 .. Len(Chunks)
                   PROVE  Body!Message("request", <<Chunks[i]>>, i < Len(Chunks)) \in Messages
        OBVIOUS
    <2>2. <<Chunks[i]>> \in Seq(Texts)
        <3>1. Chunks[i] \in Texts
            BY <1>8, ElementOfSeq
        <3> QED
            BY <3>1
    <2>3. (i < Len(Chunks)) \in BOOLEAN
        OBVIOUS
    <2> QED
        BY <2>2, <2>3, Zenon DEF Messages, Body!Message
<1>10. Body!Message("disconnect", <<>>, FALSE) \in Messages
    BY Zenon, EmptySeq DEF Messages, Body!Message
<1> DEFINE N == Len(Chunks)
           M(i) == Body!Message("request", <<Chunks[i]>>, i < N)
           D == Body!Message("disconnect", <<>>, FALSE)
<1>11. /\ Body!Sent \in Seq(Messages) /\ Len(Body!Sent) = N /\ \A i \in 1 .. N : Body!Sent[i] = M(i)
    <2>1. Body!Sent = [i \in 1 .. N |-> M(i)]
        BY <1>8 DEF Body!Sent
    <2> QED
        BY <1>8, <1>9, <2>1
<1>12. /\ s1 \in Seq(Messages)
       /\ \A i \in 1 .. Len(s1) : s1[i] = D \/ (i <= N /\ s1[i] = M(i))
    <2>1. CASE s1 = Body!Sent
        <3>1. Len(s1) = N /\ \A i \in 1 .. N : s1[i] = M(i)
            BY <1>11, <2>1
        <3>2. \A i \in 1 .. N : i <= N
            BY <1>8
        <3> QED
            BY <1>11, <2>1, <3>1, <3>2
    <2>2. CASE \E n \in 0 .. N : s1 = SubSeq(Body!Sent, 1, n) \o Body!Gone
        <3>1. PICK n \in 0 .. N : s1 = SubSeq(Body!Sent, 1, n) \o Body!Gone
            BY <2>2
        <3>2. n \in Int /\ n <= N
            BY <1>8
        <3>3. \A i \in 1 .. n : Body!Sent[i] \in Messages
            BY <1>8, <1>9, <1>11
        <3>4. PICK p \in Seq(Messages) : /\ p = SubSeq(Body!Sent, 1, n) /\ Len(p) = n
                                         /\ \A i \in 1 .. n : p[i] = Body!Sent[i]
            <4>1. /\ SubSeq(Body!Sent, 1, n) \in Seq(Messages)
                  /\ Len(SubSeq(Body!Sent, 1, n)) = IF 1 <= n THEN n - 1 + 1 ELSE 0
                  /\ \A i \in 1 .. n - 1 + 1 : SubSeq(Body!Sent, 1, n)[i] = Body!Sent[1 + i - 1]
                BY <3>2, <3>3, SubSeqProperties
            <4>2. n - 1 + 1 = n /\ (~(1 <= n) => n = 0)
                BY <1>8
            <4>3. \A i \in 1 .. n : 1 + i - 1 = i
                BY <3>2
            <4> QED
                BY <4>1, <4>2, <4>3
        <3>5. s1 = Append(p, D)
            BY <1>10, <3>1, <3>4, AppendIsConcat DEF Body!Gone
        <3>6. PICK q \in Seq(Messages) : /\ q = Append(p, D) /\ Len(q) = Len(p) + 1 /\ Len(p) \in Nat
                                         /\ DOMAIN q = 1 .. Len(p) + 1 /\ DOMAIN p = 1 .. Len(p)
                                         /\ q[Len(p) + 1] = D /\ \A j \in 1 .. Len(p) : q[j] = p[j]
            BY <1>10, Appended
        <3>7. Len(q) = n + 1 /\ q[n + 1] = D /\ \A j \in 1 .. n : q[j] = M(j)
            <4>1. Len(q) = n + 1 /\ q[n + 1] = D /\ \A j \in 1 .. n : q[j] = p[j]
                BY <3>4, <3>6
            <4>2. \A j \in 1 .. n : j \in 1 .. N
                BY <1>8, <3>2
            <4> QED
                BY <1>11, <3>4, <4>1, <4>2
        <3>8. \A i \in 1 .. n + 1 : i = n + 1 \/ (i \in 1 .. n /\ i <= N)
            BY <1>8, <3>2
        <3> QED
            BY <3>5, <3>6, <3>7, <3>8
    <2> QED
        BY <1>1, <2>1, <2>2 DEF Body!Init
<1>13. Coming
    <2>1. \A i \in 1 .. Len(s1) : s2.size + i = i
        BY <1>2
    <2> QED
        BY <1>2, <1>12, <2>1 DEF Coming
<1>14. s2.max \in Nat
    BY <1>2, ServicesAssumption DEF Body!BodyAssumption
<1>15. Reading /\ Drained
    BY <1>2, <1>4, <1>5, <1>6, <1>8, <1>12, <1>13, <1>14 DEF Reading, Drained
<1> QED
    BY <1>7, <1>15 DEF BodyInv

\* What the invariant says of the readers.
LEMMA BodyIsSound == BodyInv => Body!ReadersGetTheBody /\ Body!UploadsAreKnown
<1>1. SUFFICES ASSUME BodyInv PROVE Body!ReadersGetTheBody /\ Body!UploadsAreKnown
    OBVIOUS
<1>2. Body!UploadsAreKnown
    BY <1>1 DEF BodyInv, FormsKnown, Body!UploadsAreKnown
<1>3. Body!ReadersGetTheBody
    <2>1. SUFFICES ASSUME s6 = "in turn" PROVE Body!SameBody
        BY DEF Body!ReadersGetTheBody
    <2>2. Drained
        BY <1>1, <2>1 DEF BodyInv
    <2>3. CASE s3.drained
        BY <2>2, <2>3 DEF Drained, Arrived, Body!SameBody
    <2>4. CASE ~s3.drained
        BY <2>2, <2>4 DEF Drained, Body!SameBody
    <2> QED
        BY <2>3, <2>4
<1> QED
    BY <1>2, <1>3

-----------------------------------------------------------------------------
(* The three of them as services.                                           *)

PartsInv == /\ which = "grants" => GrantsInv
            /\ which = "asgi" => AdapterInv
            /\ which = "body" => BodyInv

LEMMA PartsInit == Init => PartsInv
<1>1. SUFFICES ASSUME Init PROVE PartsInv
    OBVIOUS
<1>2. /\ which = "grants" => Auth!Init
      /\ which = "asgi" => Asgi!Init
      /\ which = "body" => Body!Init
    BY <1>1 DEF Init
<1> QED
    BY <1>2, GrantsInit, AdapterInit, BodyStart DEF PartsInv

\* A step of a service is one of its own, and no service turns into another.
LEMMA OnePart ==
    ASSUME Next
    PROVE  /\ which' = which
           /\ which = "grants" => Auth!Next
           /\ which = "asgi" => Asgi!Next
           /\ which = "body" => Body!Next
BY DEF Next

LEMMA PartsStay ==
    ASSUME PartsInv, UNCHANGED <<which, s1, s2, s3, s4, s5, s6, s7, s8, s9, s10, s11>>
    PROVE  PartsInv'
<1>1. GrantsInv => GrantsInv'
    BY DEF GrantsInv, GrantTypes, Pairs, CodesUsedUp, OneOfAFamily, TakenIsGone, Remembered
<1>2. AdapterInv => AdapterInv'
    <2>1. AdapterTypes => AdapterTypes'
        BY DEF AdapterTypes
    <2>2. HttpInv => HttpInv'
        BY DEF HttpInv, Begun, Answered, Whole
    <2>3. ListenerInv => ListenerInv'
        BY DEF ListenerInv, OneEnd, NoEnd
    <2> QED
        BY <2>1, <2>2, <2>3 DEF AdapterInv
<1>3. BodyInv => BodyInv'
    BY DEF BodyInv, BodyShapes, Turns, FormsKnown, Reading, Drained, Coming, Arrived, Body!Prefixes, Body!Cut
<1> QED
    BY <1>1, <1>2, <1>3 DEF PartsInv

\* The invariants of the three hold.
THEOREM PartsInvHolds == Spec => []PartsInv
<1>1. Init => PartsInv
    BY PartsInit
<1>2. PartsInv /\ [Next]_<<which, s1, s2, s3, s4, s5, s6, s7, s8, s9, s10, s11>> => PartsInv'
    <2>1. SUFFICES ASSUME PartsInv, [Next]_<<which, s1, s2, s3, s4, s5, s6, s7, s8, s9, s10, s11>>
                   PROVE  PartsInv'
        OBVIOUS
    <2>2. CASE Next
        BY <2>1, <2>2, OnePart, GrantsStep, AdapterStep, BodyStep DEF PartsInv
    <2>3. CASE UNCHANGED <<which, s1, s2, s3, s4, s5, s6, s7, s8, s9, s10, s11>>
        BY <2>1, <2>3, PartsStay
    <2> QED
        BY <2>1, <2>2, <2>3
<1> QED
    BY <1>1, <1>2, PTL DEF Spec

\* A handler whose body is read for it gets all of it or its client has gone,
\* never more than the limit; every scope of the ASGI adapter is answered in
\* the order ASGI asks for; readers of a streamed body that take their turn all
\* get the same body, and the request knows the files of every form it parsed
\* (app/asgi.py, http/request.py).
THEOREM BodiesArriveWhole == Spec => []BodiesAreWhole
<1>1. PartsInv => BodiesAreWhole
    BY AdapterIsSound, BodyIsSound DEF PartsInv, BodiesAreWhole
<1> QED
    BY <1>1, PartsInvHolds, PTL

\* A code, and a refresh token, is exchanged once; once one came back to a store
\* in memory, no token of its family is good (contrib/mcp/authorization.py).
THEOREM GrantsWorkOnce == Spec => []GrantsEnd
<1>1. PartsInv => GrantsEnd
    BY GrantsAreSound DEF PartsInv, GrantsEnd
<1> QED
    BY <1>1, PartsInvHolds, PTL
=============================================================================
