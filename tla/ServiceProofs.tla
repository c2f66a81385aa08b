--------------------------- MODULE ServiceProofs ----------------------------
(***************************************************************************)
(* The services that face the outside. For any number of tasks, rows,      *)
(* connections, accounts and requests: the session with the broker and the *)
(* operation log of netsrv, the WebSocket hub and the sessions of          *)
(* apigateway.                                                             *)
(***************************************************************************)
EXTENDS CloudLink, Gateway, TLAPS

-----------------------------------------------------------------------------
(* apigateway: accounts and sessions *)

SsPairKinds == [user : 1 .. SsUsers, ver : Nat, role : SsRoles, sound : SsWords]

\* What the account of a pair has become: its version never falls behind that of a
\* pair, and at the same version it has the password the pair was issued for.
SsPairTrue(p) ==
    /\ p.user < ssNext
    /\ \A r \in ssUser[p.user] : p.ver <= r.ver /\ (p.ver = r.ver => r.word = p.sound)

\* What a request in flight carries from one database call to the next.
SsCarries(q, pairs) ==
    \/ q.at \in {"idle", "revoke"}
    \/ q \in [at : {"insert"}, name : SsNames, word : SsWords]
    \/ q \in [at : {"verify"}, user : 1 .. SsUsers, role : SsRoles, word : SsWords]
    \/ q \in [at : {"consume", "reissue"}, pair : pairs]
    \/ /\ q \in [at : {"role", "active", "word"}, user : 1 .. SsUsers, body : SsBody, changed : BOOLEAN]
       /\ q.at = "word" => q.body.word # {}

SsInv ==
    /\ ssUser \in [1 .. SsUsers -> SUBSET SsRow]
    /\ \A u \in 1 .. SsUsers : \A r, s \in ssUser[u] : r = s
    /\ ssNext \in Nat /\ \A u \in 1 .. SsUsers : u >= ssNext => ssUser[u] = {}
    /\ SsNamesDistinct
    /\ ssPair \in Seq(SsPairKinds) /\ \A i \in 1 .. Len(ssPair) : SsPairTrue(ssPair[i])
    /\ ssCall = [c \in SsCalls |-> ssCall[c]]
    /\ \A c \in SsCalls : SsCarries(ssCall[c], 1 .. Len(ssPair))

USE SsAssumption

\* A request goes on and the tables of accounts and pairs stay.
LEMMA SsMoved ==
    ASSUME SsInv, ssUser' = ssUser, ssNext' = ssNext, ssPair' = ssPair,
           NEW c \in SsCalls, NEW q, ssCall' = [ssCall EXCEPT ![c] = q], SsCarries(q, 1 .. Len(ssPair))
    PROVE  SsInv'
<1>1. ssCall' = [d \in SsCalls |-> ssCall'[d]] /\ \A d \in SsCalls : ssCall'[d] = IF d = c THEN q ELSE ssCall[d]
  BY Zenon DEF SsInv
<1>2. ASSUME NEW d \in SsCalls PROVE SsCarries(ssCall'[d], 1 .. Len(ssPair))
  <2>1. SsCarries(ssCall[d], 1 .. Len(ssPair))
    BY Zenon DEF SsInv
  <2> QED
    BY <1>1, <2>1, Zenon
<1>3. SsNamesDistinct'
  BY Zenon DEF SsInv, SsNamesDistinct
<1>4. \A i \in 1 .. Len(ssPair) : SsPairTrue(ssPair[i])'
  BY Zenon DEF SsInv, SsPairTrue
<1> QED
  BY <1>1, <1>2, <1>3, <1>4, Zenon DEF SsInv

\* The row of an account changes: it keeps its name, and its version rises unless it
\* stays as it is.
LEMMA SsRowChanged ==
    ASSUME SsInv, NEW u \in 1 .. SsUsers, NEW R \in SUBSET SsRow, \A r, s \in R : r = s,
           \A r \in R : \E o \in ssUser[u] : r.name = o.name /\ (r = o \/ r.ver > o.ver),
           ssUser' = [ssUser EXCEPT ![u] = R], ssNext' = ssNext, ssPair' = ssPair,
           NEW c \in SsCalls, NEW q, ssCall' = [ssCall EXCEPT ![c] = q], SsCarries(q, 1 .. Len(ssPair))
    PROVE  SsInv'
<1>0. /\ ssUser \in [1 .. SsUsers -> SUBSET SsRow] /\ ssPair \in Seq(SsPairKinds)
      /\ \A i \in 1 .. Len(ssPair) : SsPairTrue(ssPair[i])
      /\ SsNamesDistinct
      /\ \A v \in 1 .. SsUsers : v >= ssNext => ssUser[v] = {}
  BY Zenon DEF SsInv
<1>1. ssUser' \in [1 .. SsUsers -> SUBSET SsRow] /\ \A v \in 1 .. SsUsers : ssUser'[v] = IF v = u THEN R ELSE ssUser[v]
  BY <1>0, Zenon
<1>2. \A v \in 1 .. SsUsers : \A r, s \in ssUser'[v] : r = s
  BY <1>1, Zenon DEF SsInv
<1>3. \A v \in 1 .. SsUsers : v >= ssNext => ssUser'[v] = {}
  BY <1>0, <1>1, Zenon
<1>o. ASSUME NEW v \in 1 .. SsUsers, NEW r \in ssUser'[v]
      PROVE  \E o \in ssUser[v] : r.name = o.name /\ (r = o \/ r.ver > o.ver)
  <2>1. CASE v = u
    BY <1>1, <1>o, <2>1, Zenon
  <2>2. CASE v # u
    BY <1>1, <1>o, <2>2, Zenon
  <2> QED
    BY <2>1, <2>2, Zenon
<1>4. SsNamesDistinct'
  <2> SUFFICES ASSUME NEW v \in 1 .. SsUsers, NEW w \in 1 .. SsUsers, NEW r \in ssUser'[v], NEW s \in ssUser'[w],
                      r.name = s.name
               PROVE  v = w
    BY Zenon DEF SsNamesDistinct
  <2>1. PICK o \in ssUser[v] : r.name = o.name
    BY <1>o
  <2>2. PICK t \in ssUser[w] : s.name = t.name
    BY <1>o
  <2> QED
    BY <1>0, <2>1, <2>2, Zenon DEF SsNamesDistinct
<1>5. ASSUME NEW i \in 1 .. Len(ssPair) PROVE SsPairTrue(ssPair[i])'
  <2> DEFINE p == ssPair[i]
  <2>1. p \in SsPairKinds
    <3> HIDE DEF SsPairKinds
    <3> QED
      BY <1>0
  <2>2. p.user \in 1 .. SsUsers /\ p.ver \in Nat /\ SsPairTrue(p)
    BY <1>0, <2>1, Zenon DEF SsPairKinds
  <2> HIDE DEF p
  <2>3. ASSUME NEW r \in ssUser'[p.user] PROVE p.ver <= r.ver /\ (p.ver = r.ver => r.word = p.sound)
    <3>1. PICK o \in ssUser[p.user] : r = o \/ r.ver > o.ver
      BY <1>o, <2>2, <2>3, Zenon
    <3>2. p.ver <= o.ver /\ (p.ver = o.ver => o.word = p.sound)
      BY <2>2, <3>1, Zenon DEF SsPairTrue
    <3>3. o.ver \in Nat /\ r.ver \in Nat
      BY <1>0, <1>1, <2>2, <2>3, <3>1 DEF SsRow
    <3> QED
      BY <2>2, <3>1, <3>2, <3>3
  <2> QED
    BY <2>2, <2>3, Zenon DEF SsPairTrue, p
<1>6. ssCall' = [d \in SsCalls |-> ssCall'[d]] /\ \A d \in SsCalls : ssCall'[d] = IF d = c THEN q ELSE ssCall[d]
  BY Zenon DEF SsInv
<1>7. ASSUME NEW d \in SsCalls PROVE SsCarries(ssCall'[d], 1 .. Len(ssPair))
  <2>1. SsCarries(ssCall[d], 1 .. Len(ssPair))
    BY Zenon DEF SsInv
  <2> QED
    BY <1>6, <2>1, Zenon
<1> QED
  BY <1>1, <1>2, <1>3, <1>4, <1>5, <1>6, <1>7, Zenon DEF SsInv

\* A pair is issued for an account at a version and with the password of it.
LEMMA SsIssued ==
    ASSUME SsInv, NEW u \in 1 .. SsUsers, NEW ver \in Nat, NEW role \in SsRoles, NEW word \in SsWords,
           SsIssue(u, ver, role, word), u < ssNext,
           \A r \in ssUser[u] : ver <= r.ver /\ (ver = r.ver => r.word = word),
           NEW c \in SsCalls, ssCall' = [ssCall EXCEPT ![c] = SsIdle]
    PROVE  SsInv'
<1> DEFINE p == [user |-> u, ver |-> ver, role |-> role, sound |-> word]
<1>1. p \in SsPairKinds /\ p.user = u /\ p.ver = ver /\ p.sound = word
  BY Zenon DEF SsPairKinds
<1>2. ssPair' = Append(ssPair, p) /\ ssUser' = ssUser /\ ssNext' = ssNext
  BY Zenon DEF SsIssue
<1> HIDE DEF p
<1>0. ssPair \in Seq(SsPairKinds)
  BY Zenon DEF SsInv
<1>3. /\ ssPair' \in Seq(SsPairKinds) /\ Len(ssPair) \in Nat /\ Len(ssPair') = Len(ssPair) + 1
      /\ \A i \in 1 .. Len(ssPair') : ssPair'[i] = IF i <= Len(ssPair) THEN ssPair[i] ELSE p
  <2> HIDE DEF SsPairKinds
  <2> QED
    BY <1>0, <1>1, <1>2, SMTT(30)
<1>4. SsPairTrue(p)
  BY <1>1, Zenon DEF SsPairTrue
<1>5. ASSUME NEW i \in 1 .. Len(ssPair') PROVE SsPairTrue(ssPair[i])'
  <2>1. SsPairTrue(ssPair'[i])
    <3>1. CASE i <= Len(ssPair)
      <4>1. i \in 1 .. Len(ssPair)
        BY <1>3, <3>1
      <4> QED
        BY <1>3, <4>1 DEF SsInv
    <3>2. CASE ~(i <= Len(ssPair))
      BY <1>3, <1>4, <3>2, Zenon
    <3> QED
      BY <3>1, <3>2, Zenon
  <2> QED
    BY <1>2, <2>1, Zenon DEF SsPairTrue
<1>6. ssCall' = [d \in SsCalls |-> ssCall'[d]]
      /\ \A d \in SsCalls : ssCall'[d] = IF d = c THEN SsIdle ELSE ssCall[d]
  BY Zenon DEF SsInv
<1>7. ASSUME NEW d \in SsCalls PROVE SsCarries(ssCall'[d], 1 .. Len(ssPair'))
  <2>1. CASE d = c
    BY <1>6, <2>1, Zenon DEF SsCarries, SsIdle
  <2>2. CASE d # c
    <3>1. SsCarries(ssCall[d], 1 .. Len(ssPair)) /\ ssCall'[d] = ssCall[d]
      BY <1>6, <2>2, Zenon DEF SsInv
    <3>2. 1 .. Len(ssPair) \subseteq 1 .. Len(ssPair')
      BY <1>3, SMTT(30)
    <3>3. \A q, S, T : SsCarries(q, S) /\ S \subseteq T => SsCarries(q, T)
      BY Zenon DEF SsCarries
    <3> QED
      BY <3>1, <3>2, <3>3, Zenon
  <2> QED
    BY <2>1, <2>2, Zenon
<1>8. SsNamesDistinct'
  BY <1>2, Zenon DEF SsInv, SsNamesDistinct
<1> QED
  BY <1>2, <1>3, <1>5, <1>6, <1>7, <1>8, Zenon DEF SsInv

\* register() has looked the name up; it is inserted unless it is taken by now.
LEMMA SsCreated == ASSUME SsInv, NEW c \in SsCalls, SsCreateUser(c) PROVE SsInv'
<1>c. /\ ssCall' = [ssCall EXCEPT ![c] = SsIdle] /\ SsCarries(SsIdle, 1 .. Len(ssPair)) /\ ssPair' = ssPair
      /\ ssCall[c].at = "insert"
  BY Zenon DEF SsCreateUser, SsDone, SsTo, SsCarries, SsIdle, SsAt
<1>1. CASE \E u \in 1 .. SsUsers : \E r \in ssUser[u] : r.name = ssCall[c].name
  BY <1>c, <1>1, SsMoved, Zenon DEF SsCreateUser
<1>2. CASE ~(\E u \in 1 .. SsUsers : \E r \in ssUser[u] : r.name = ssCall[c].name)
  <2> DEFINE row == [name |-> ssCall[c].name, word |-> ssCall[c].word, role |-> 3, active |-> TRUE, ver |-> 0]
  <2>1. /\ ssNext <= SsUsers /\ ssNext' = ssNext + 1
        /\ ssUser' = [ssUser EXCEPT ![ssNext] = {row}]
    BY <1>2, Zenon DEF SsCreateUser
  <2>2. ssCall[c].name \in SsNames /\ ssCall[c].word \in SsWords
    <3>1. SsCarries(ssCall[c], 1 .. Len(ssPair))
      BY Zenon DEF SsInv
    <3> QED
      BY <1>c, <3>1, Zenon DEF SsCarries
  <2>3. row \in SsRow /\ row.name = ssCall[c].name
    BY <2>2 DEF SsRow, SsRoles
  <2> HIDE DEF row
  <2>0. /\ ssUser \in [1 .. SsUsers -> SUBSET SsRow] /\ ssPair \in Seq(SsPairKinds) /\ ssNext \in Nat
        /\ \A v \in 1 .. SsUsers : v >= ssNext => ssUser[v] = {}
        /\ SsNamesDistinct
    BY Zenon DEF SsInv
  <2>4. ssUser' \in [1 .. SsUsers -> SUBSET SsRow]
        /\ \A v \in 1 .. SsUsers : ssUser'[v] = IF v = ssNext THEN {row} ELSE ssUser[v]
    BY <2>0, <2>1, <2>3, Zenon
  <2>5. \A v \in 1 .. SsUsers : \A r, s \in ssUser'[v] : r = s
    BY <2>4, Zenon DEF SsInv
  <2>6. ssNext' \in Nat /\ \A v \in 1 .. SsUsers : v >= ssNext' => ssUser'[v] = {}
    BY <2>0, <2>1, <2>4
  <2>7. SsNamesDistinct'
    <3> SUFFICES ASSUME NEW v \in 1 .. SsUsers, NEW w \in 1 .. SsUsers, NEW r \in ssUser'[v], NEW s \in ssUser'[w],
                        r.name = s.name
                 PROVE  v = w
      BY Zenon DEF SsNamesDistinct
    <3>1. CASE v = ssNext /\ w # ssNext
      BY <1>2, <2>3, <2>4, <3>1, Zenon
    <3>2. CASE v # ssNext /\ w = ssNext
      BY <1>2, <2>3, <2>4, <3>2, Zenon
    <3>3. CASE v # ssNext /\ w # ssNext
      BY <2>0, <2>4, <3>3, Zenon DEF SsNamesDistinct
    <3> QED
      BY <3>1, <3>2, <3>3, Zenon
  <2>8. ASSUME NEW i \in 1 .. Len(ssPair) PROVE SsPairTrue(ssPair[i])'
    <3> DEFINE p == ssPair[i]
    <3>1. p \in SsPairKinds
      <4> HIDE DEF SsPairKinds
      <4> QED
        BY <2>0
    <3>2. p.user \in 1 .. SsUsers /\ SsPairTrue(p)
      BY <3>1, Zenon DEF SsPairKinds, SsInv
    <3> HIDE DEF p
    <3>3. p.user < ssNext /\ p.user # ssNext /\ p.user < ssNext'
      BY <2>0, <2>1, <3>2, SMTT(30) DEF SsPairTrue
    <3>4. ssUser'[p.user] = ssUser[p.user]
      BY <2>4, <3>2, <3>3, Zenon
    <3> QED
      BY <1>c, <3>2, <3>3, <3>4, Zenon DEF SsPairTrue, p
  <2>9. ssCall' = [d \in SsCalls |-> ssCall'[d]]
        /\ \A d \in SsCalls : ssCall'[d] = IF d = c THEN SsIdle ELSE ssCall[d]
    BY <1>c, Zenon DEF SsInv
  <2>10. ASSUME NEW d \in SsCalls PROVE SsCarries(ssCall'[d], 1 .. Len(ssPair))
    <3>1. SsCarries(ssCall[d], 1 .. Len(ssPair))
      BY Zenon DEF SsInv
    <3> QED
      BY <1>c, <2>9, <3>1, Zenon
  <2> QED
    BY <1>c, <2>0, <2>4, <2>5, <2>6, <2>7, <2>8, <2>9, <2>10, Zenon DEF SsInv
<1> QED
  BY <1>1, <1>2, Zenon

\* A pair is issued by login() and by refresh_token(), or not.
LEMMA SsTokens == ASSUME SsInv, NEW c \in SsCalls, SsVerify(c) \/ SsReissue(c) PROVE SsInv'
<1>c. ssCall' = [ssCall EXCEPT ![c] = SsIdle] /\ SsCarries(SsIdle, 1 .. Len(ssPair))
  BY Zenon DEF SsVerify, SsReissue, SsDone, SsTo, SsCarries, SsIdle
<1>q. SsCarries(ssCall[c], 1 .. Len(ssPair))
  BY Zenon DEF SsInv
<1>0. /\ ssUser \in [1 .. SsUsers -> SUBSET SsRow] /\ ssPair \in Seq(SsPairKinds) /\ ssNext \in Nat
      /\ \A v \in 1 .. SsUsers : v >= ssNext => ssUser[v] = {}
      /\ \A u \in 1 .. SsUsers : \A r, s \in ssUser[u] : r = s
  BY Zenon DEF SsInv
<1>1. CASE SsVerify(c)
  <2> DEFINE q == ssCall[c]
  <2>1. q.user \in 1 .. SsUsers /\ q.role \in SsRoles /\ q.word \in SsWords
    BY <1>q, <1>1, Zenon DEF SsVerify, SsAt, SsCarries
  <2>2. CASE UNCHANGED <<ssUser, ssNext, ssPair, ssStored, ssAge>>
    BY <1>c, <2>2, SsMoved, Zenon
  <2>3. ASSUME NEW r \in ssUser[q.user], r.word = q.word, SsIssue(q.user, r.ver, q.role, q.word) PROVE SsInv'
    <3>1. r.ver \in Nat
      BY <1>0, <2>1, <2>3, SMTT(30) DEF SsRow
    <3>2. q.user < ssNext
      BY <1>0, <2>1, <2>3, SMTT(30)
    <3>3. \A s \in ssUser[q.user] : r.ver <= s.ver /\ (r.ver = s.ver => s.word = q.word)
      BY <1>0, <2>1, <2>3, <3>1, SMTT(30)
    <3>4. ASSUME NEW u \in 1 .. SsUsers, NEW ver \in Nat, NEW role \in SsRoles, NEW word \in SsWords,
                 SsIssue(u, ver, role, word), u < ssNext,
                 \A s \in ssUser[u] : ver <= s.ver /\ (ver = s.ver => s.word = word)
          PROVE  SsInv'
      BY <1>c, <3>4, SsIssued, Zenon
    <3> HIDE DEF q
    <3> QED
      BY <2>1, <2>3, <3>1, <3>2, <3>3, <3>4, Zenon
  <2> QED
    BY <1>1, <2>2, <2>3, Zenon DEF SsVerify
<1>2. CASE SsReissue(c)
  <2> DEFINE i == ssCall[c].pair
             p == ssPair[i]
  <2>1. i \in 1 .. Len(ssPair)
    BY <1>q, <1>2, Zenon DEF SsReissue, SsAt, SsCarries
  <2>2. p \in SsPairKinds /\ SsPairTrue(p)
    <3>1. SsPairTrue(p)
      BY <2>1, Zenon DEF SsInv
    <3> HIDE DEF SsPairKinds, i
    <3> QED
      BY <1>0, <2>1, <3>1
  <2>3. CASE UNCHANGED <<ssUser, ssNext, ssPair, ssStored, ssAge>>
    BY <1>c, <2>3, SsMoved, Zenon
  <2>4. ASSUME NEW r \in ssUser[p.user], SsIssue(p.user, p.ver, r.role, p.sound) PROVE SsInv'
    <3> HIDE DEF p, i
    <3>1. p.user \in 1 .. SsUsers /\ p.ver \in Nat /\ p.sound \in SsWords
      BY <2>2, Zenon DEF SsPairKinds
    <3>2. r.role \in SsRoles
      BY <1>0, <2>4, <3>1 DEF SsRow
    <3> QED
      BY <1>c, <2>2, <2>4, <3>1, <3>2, SsIssued, Zenon DEF SsPairTrue
  <2> QED
    BY <1>2, <2>3, <2>4, Zenon DEF SsReissue
<1> QED
  BY <1>1, <1>2, Zenon

\* A field of a row and its version change, the name stays.
LEMMA SsRowSet ==
    ASSUME NEW r \in SsRow, r.ver < SsChanges
    PROVE  /\ \A x \in SsRoles : LET n == [r EXCEPT !.role = x, !.ver = @ + 1]
                                 IN  n \in SsRow /\ n.name = r.name /\ n.ver > r.ver
           /\ \A x \in BOOLEAN : LET n == [r EXCEPT !.active = x, !.ver = @ + 1]
                                 IN  n \in SsRow /\ n.name = r.name /\ n.ver > r.ver
           /\ \A x \in SsWords : LET n == [r EXCEPT !.word = x, !.ver = @ + 1]
                                 IN  n \in SsRow /\ n.name = r.name /\ n.ver > r.ver
<1> DEFINE V == 0 .. SsChanges
           w == r.ver + 1
<1>1. r \in [name : SsNames, word : SsWords, role : SsRoles, active : BOOLEAN, ver : V] /\ w \in V /\ w > r.ver
  BY DEF SsRow
<1>2. SsRow = [name : SsNames, word : SsWords, role : SsRoles, active : BOOLEAN, ver : V]
  BY Zenon DEF SsRow
<1>3. ASSUME NEW D, NEW t \in [name : SsNames, word : SsWords, role : SsRoles, active : D, ver : V], NEW e \in V
      PROVE  /\ \A x \in SsRoles : LET n == [t EXCEPT !.role = x, !.ver = e]
                                   IN  /\ n \in [name : SsNames, word : SsWords, role : SsRoles, active : D, ver : V]
                                       /\ n.name = t.name /\ n.ver = e
             /\ \A x \in D : LET n == [t EXCEPT !.active = x, !.ver = e]
                             IN  /\ n \in [name : SsNames, word : SsWords, role : SsRoles, active : D, ver : V]
                                 /\ n.name = t.name /\ n.ver = e
             /\ \A x \in SsWords : LET n == [t EXCEPT !.word = x, !.ver = e]
                                   IN  /\ n \in [name : SsNames, word : SsWords, role : SsRoles, active : D, ver : V]
                                       /\ n.name = t.name /\ n.ver = e
  <2> HIDE DEF V, SsRoles
  <2> QED
    BY <1>3, Zenon
<1> HIDE DEF V
<1> QED
  BY <1>1, <1>2, <1>3, Zenon

\* A security change of an account: its role, its active flag, its password, or the
\* row goes.
LEMMA SsChanged ==
    ASSUME SsInv, NEW c \in SsCalls, SsSetRole(c) \/ SsSetActive(c) \/ SsSetPassword(c) \/ SsDeleteUser(c)
    PROVE  SsInv'
<1>q. SsCarries(ssCall[c], 1 .. Len(ssPair))
  BY Zenon DEF SsInv
<1>0. /\ ssUser \in [1 .. SsUsers -> SUBSET SsRow]
      /\ \A u \in 1 .. SsUsers : \A r, s \in ssUser[u] : r = s
  BY Zenon DEF SsInv
<1> DEFINE q == ssCall[c]
<1>b. ASSUME q.at \in {"role", "active", "word"}
      PROVE  /\ q \in [at : {"role", "active", "word"}, user : 1 .. SsUsers, body : SsBody, changed : BOOLEAN]
             /\ q.user \in 1 .. SsUsers /\ q.body \in SsBody /\ (q.at = "word" => q.body.word # {})
  BY <1>q, <1>b, Zenon DEF SsCarries
<1>e. ASSUME NEW a \in {"active", "word", "revoke"}, NEW b \in BOOLEAN, q.at \in {"role", "active", "word"},
             a = "word" => q.body.word # {}
      PROVE  SsCarries([q EXCEPT !.at = a, !.changed = b], 1 .. Len(ssPair))
  <2>1. q \in [at : {"role", "active", "word"}, user : 1 .. SsUsers, body : SsBody, changed : BOOLEAN]
    BY <1>b, <1>e, Zenon
  <2> HIDE DEF q
  <2> DEFINE n == [q EXCEPT !.at = a, !.changed = b]
  <2>2. n.at = a /\ n.body = q.body
        /\ n \in [at : {"active", "word", "revoke"}, user : 1 .. SsUsers, body : SsBody, changed : BOOLEAN]
    BY <1>e, <2>1, Zenon
  <2>3. a # "revoke" => n \in [at : {"role", "active", "word"}, user : 1 .. SsUsers, body : SsBody, changed : BOOLEAN]
    BY <1>e, <2>1, Zenon
  <2> HIDE DEF n
  <2>4. SsCarries(n, 1 .. Len(ssPair))
    BY <1>e, <2>2, <2>3, Zenon DEF SsCarries
  <2> QED
    BY <2>4, Zenon DEF n
<1>1. CASE SsSetRole(c)
  <2> DEFINE hit == {r \in ssUser[q.user] : \E v \in q.body.role : r.role # v}
             v1 == CHOOSE v \in q.body.role : TRUE
             R == IF hit = {} THEN ssUser[q.user]
                  ELSE {[r EXCEPT !.role = v1, !.ver = @ + 1] : r \in hit}
             b == q.changed \/ hit # {}
  <2>1. q.at = "role" /\ ssNext' = ssNext /\ ssPair' = ssPair /\ \A r \in hit : r.ver < SsChanges
    BY <1>1, Zenon DEF SsSetRole, SsAt
  <2>s. ssUser' = [ssUser EXCEPT ![q.user] = R] /\ ssCall' = [ssCall EXCEPT ![c] = [q EXCEPT !.at = "active", !.changed = b]]
    BY <1>1, Zenon DEF SsSetRole, SsTo
  <2>2. q.user \in 1 .. SsUsers /\ q.body \in SsBody /\ b \in BOOLEAN
    BY <1>b, <2>1, Zenon
  <2>3. hit # {} => v1 \in SsRoles
    <3>1. q.body.role \in {{}, {1}}
      BY <2>2, Zenon DEF SsBody
    <3>2. hit # {} => q.body.role # {}
      BY Zenon
    <3> QED
      BY <3>1, <3>2, Zenon DEF SsRoles
  <2>4. ASSUME NEW r \in hit
        PROVE  LET n == [r EXCEPT !.role = v1, !.ver = @ + 1]
               IN  n \in SsRow /\ n.name = r.name /\ n.ver > r.ver
    <3>1. v1 \in SsRoles /\ r.ver < SsChanges
      BY <2>1, <2>3, <2>4, Zenon
    <3>2. r \in SsRow
      BY <1>0, <2>2, <2>4, Zenon
    <3> HIDE DEF v1, hit
    <3> QED
      BY <3>1, <3>2, SsRowSet, Zenon
  <2>5. R \in SUBSET SsRow /\ \A r, s \in R : r = s
    <3>1. hit \subseteq ssUser[q.user] /\ ssUser[q.user] \subseteq SsRow /\ \A r, s \in ssUser[q.user] : r = s
      BY <1>0, <2>2, Zenon
    <3> HIDE DEF hit, v1, q
    <3> QED
      BY <2>4, <3>1, Zenon
  <2>6. \A r \in R : \E o \in ssUser[q.user] : r.name = o.name /\ (r = o \/ r.ver > o.ver)
    <3>1. hit \subseteq ssUser[q.user]
      BY Zenon
    <3> HIDE DEF hit, v1, q
    <3> QED
      BY <2>4, <3>1, Zenon
  <2>7. SsCarries([q EXCEPT !.at = "active", !.changed = b], 1 .. Len(ssPair))
    <3> HIDE DEF b
    <3> QED
      BY <1>e, <2>1, <2>2, Zenon
  <2> HIDE DEF R, q, b
  <2> QED
    BY <2>1, <2>s, <2>2, <2>5, <2>6, <2>7, SsRowChanged, Zenon
<1>2. CASE SsSetActive(c)
  <2> DEFINE hit == {r \in ssUser[q.user] : \E v \in q.body.active : r.active # v}
             v1 == CHOOSE v \in q.body.active : TRUE
             R == IF hit = {} THEN ssUser[q.user]
                  ELSE {[r EXCEPT !.active = v1, !.ver = @ + 1] : r \in hit}
             a == IF q.body.word = {} THEN "revoke" ELSE "word"
             b == q.changed \/ hit # {}
  <2>1. q.at = "active" /\ ssNext' = ssNext /\ ssPair' = ssPair /\ \A r \in hit : r.ver < SsChanges
    BY <1>2, Zenon DEF SsSetActive, SsAt
  <2>s. ssUser' = [ssUser EXCEPT ![q.user] = R] /\ ssCall' = [ssCall EXCEPT ![c] = [q EXCEPT !.at = a, !.changed = b]]
    BY <1>2, Zenon DEF SsSetActive, SsTo
  <2>2. q.user \in 1 .. SsUsers /\ q.body \in SsBody /\ b \in BOOLEAN /\ a \in {"word", "revoke"}
        /\ (a = "word" => q.body.word # {})
    BY <1>b, <2>1, Zenon
  <2>3. hit # {} => v1 \in BOOLEAN
    <3>1. q.body.active \in {{}, {TRUE}, {FALSE}}
      BY <2>2, Zenon DEF SsBody
    <3>2. hit # {} => q.body.active # {}
      BY Zenon
    <3> QED
      BY <3>1, <3>2, Zenon
  <2>4. ASSUME NEW r \in hit
        PROVE  LET n == [r EXCEPT !.active = v1, !.ver = @ + 1]
               IN  n \in SsRow /\ n.name = r.name /\ n.ver > r.ver
    <3>1. v1 \in BOOLEAN /\ r.ver < SsChanges
      BY <2>1, <2>3, <2>4, Zenon
    <3>2. r \in SsRow
      BY <1>0, <2>2, <2>4, Zenon
    <3> HIDE DEF v1, hit
    <3> QED
      BY <3>1, <3>2, SsRowSet, Zenon
  <2>5. R \in SUBSET SsRow /\ \A r, s \in R : r = s
    <3>1. hit \subseteq ssUser[q.user] /\ ssUser[q.user] \subseteq SsRow /\ \A r, s \in ssUser[q.user] : r = s
      BY <1>0, <2>2, Zenon
    <3> HIDE DEF hit, v1, q
    <3> QED
      BY <2>4, <3>1, Zenon
  <2>6. \A r \in R : \E o \in ssUser[q.user] : r.name = o.name /\ (r = o \/ r.ver > o.ver)
    <3>1. hit \subseteq ssUser[q.user]
      BY Zenon
    <3> HIDE DEF hit, v1, q
    <3> QED
      BY <2>4, <3>1, Zenon
  <2>7. SsCarries([q EXCEPT !.at = a, !.changed = b], 1 .. Len(ssPair))
    <3> HIDE DEF a, b
    <3> QED
      BY <1>e, <2>1, <2>2, Zenon
  <2> HIDE DEF R, q, a, b
  <2> QED
    BY <2>1, <2>s, <2>2, <2>5, <2>6, <2>7, SsRowChanged, Zenon
<1>3. CASE SsSetPassword(c)
  <2> DEFINE v1 == CHOOSE v \in q.body.word : TRUE
             R == {[r EXCEPT !.word = v1, !.ver = @ + 1] : r \in ssUser[q.user]}
  <2>1. q.at = "word" /\ ssNext' = ssNext /\ ssPair' = ssPair /\ \A r \in ssUser[q.user] : r.ver < SsChanges
    BY <1>3, Zenon DEF SsSetPassword, SsAt
  <2>2. q.user \in 1 .. SsUsers /\ q.body \in SsBody /\ q.body.word # {}
    BY <1>b, <2>1, Zenon
  <2>s. /\ ssUser' = [ssUser EXCEPT ![q.user] = R]
        /\ ssCall' = [ssCall EXCEPT ![c] = [q EXCEPT !.at = "revoke", !.changed = TRUE]]
    BY <1>0, <1>3, <2>2, Zenon DEF SsSetPassword, SsTo
  <2>3. v1 \in SsWords
    <3>1. PICK w \in SsWords : q.body.word = {w}
      <4> HIDE DEF q
      <4> QED
        BY <2>2, Zenon DEF SsBody
    <3>2. \E v \in q.body.word : TRUE
      BY <3>1, Zenon
    <3>3. v1 \in q.body.word
      BY <3>2, Zenon
    <3> QED
      BY <3>1, <3>3, Zenon
  <2>4. ASSUME NEW r \in ssUser[q.user]
        PROVE  LET n == [r EXCEPT !.word = v1, !.ver = @ + 1]
               IN  n \in SsRow /\ n.name = r.name /\ n.ver > r.ver
    <3>1. r \in SsRow
      BY <1>0, <2>2, <2>4, Zenon
    <3> HIDE DEF v1, q
    <3> QED
      BY <2>1, <2>3, <2>4, <3>1, SsRowSet, Zenon
  <2>5. R \in SUBSET SsRow /\ \A r, s \in R : r = s
    <3>1. \A r, s \in ssUser[q.user] : r = s
      BY <1>0, <2>2, Zenon
    <3> HIDE DEF v1, q
    <3> QED
      BY <2>4, <3>1, Zenon
  <2>6. \A r \in R : \E o \in ssUser[q.user] : r.name = o.name /\ (r = o \/ r.ver > o.ver)
    <3> HIDE DEF v1, q
    <3> QED
      BY <2>4, Zenon
  <2>7. SsCarries([q EXCEPT !.at = "revoke", !.changed = TRUE], 1 .. Len(ssPair))
    BY <1>e, <2>1, Zenon
  <2> HIDE DEF R, q
  <2> QED
    BY <2>1, <2>s, <2>2, <2>5, <2>6, <2>7, SsRowChanged, Zenon
<1>4. CASE SsDeleteUser(c)
  <2>1. PICK u \in 2 .. SsUsers : /\ ssUser' = [ssUser EXCEPT ![u] = {}]
                                  /\ SsBegin(c, [at |-> "revoke", user |-> u, changed |-> TRUE])
    BY <1>4, Zenon DEF SsDeleteUser
  <2>2. ssNext' = ssNext /\ ssPair' = ssPair /\ u \in 1 .. SsUsers
    BY <1>4, SMTT(30) DEF SsDeleteUser
  <2> DEFINE n == [at |-> "revoke", user |-> u, changed |-> TRUE]
  <2>3. SsCarries(n, 1 .. Len(ssPair)) /\ ssCall' = [ssCall EXCEPT ![c] = n]
    BY <2>1, Zenon DEF SsBegin, SsCarries
  <2> DEFINE R == {}
  <2>4. R \in SUBSET SsRow /\ (\A r, s \in R : r = s)
        /\ \A r \in R : \E o \in ssUser[u] : r.name = o.name /\ (r = o \/ r.ver > o.ver)
    BY Zenon
  <2>5. ssUser' = [ssUser EXCEPT ![u] = R]
    BY <2>1, Zenon
  <2> HIDE DEF n, R
  <2> QED
    BY <2>2, <2>3, <2>4, <2>5, SsRowChanged, Zenon
<1> QED
  BY <1>1, <1>2, <1>3, <1>4, Zenon

\* A request begins, goes on or ends without a change of an account or a new pair.
LEMMA SsPassed ==
    ASSUME SsInv, NEW c \in SsCalls,
           \/ SsRegister(c) \/ SsLogin(c) \/ SsBeginRefresh(c) \/ SsConsume(c) \/ SsLogout(c)
           \/ SsAdminUpdate(c) \/ SsFail(c) \/ SsChangePassword(c) \/ SsRevoke(c)
    PROVE  SsInv'
<1>u. ssUser' = ssUser /\ ssNext' = ssNext /\ ssPair' = ssPair
  BY Zenon DEF SsRegister, SsLogin, SsBeginRefresh, SsConsume, SsLogout, SsAdminUpdate, SsFail, SsChangePassword, SsRevoke
<1> DEFINE Goes(q) == ssCall' = [ssCall EXCEPT ![c] = q] /\ SsCarries(q, 1 .. Len(ssPair))
<1>m. ASSUME NEW q, Goes(q) PROVE SsInv'
  BY <1>m, <1>u, SsMoved, Zenon
<1>0. /\ ssUser \in [1 .. SsUsers -> SUBSET SsRow] /\ ssPair \in Seq(SsPairKinds)
      /\ SsCarries(ssCall[c], 1 .. Len(ssPair))
  BY Zenon DEF SsInv
<1>i. SsCarries(SsIdle, 1 .. Len(ssPair))
  BY Zenon DEF SsCarries, SsIdle
<1>1. CASE SsFail(c) \/ SsRevoke(c) \/ SsLogout(c)
  <2>1. Goes(SsIdle)
    BY <1>1, <1>i, Zenon DEF SsFail, SsRevoke, SsLogout, SsDone, SsTo, SsBegin
  <2> QED
    BY <1>m, <2>1, Zenon
<1>2. CASE SsRegister(c)
  <2>1. PICK n \in SsNames, w \in SsWords : SsBegin(c, [at |-> "insert", name |-> n, word |-> w])
    BY <1>2, Zenon DEF SsRegister
  <2> DEFINE q == [at |-> "insert", name |-> n, word |-> w]
  <2>2. Goes(q)
    BY <2>1, Zenon DEF SsBegin, SsCarries
  <2> QED
    BY <1>m, <2>2, Zenon
<1>3. CASE SsLogin(c)
  <2>1. PICK u \in 1 .. SsUsers : \E r \in ssUser[u], w \in SsWords :
            SsBegin(c, [at |-> "verify", user |-> u, role |-> r.role, word |-> w])
    BY <1>3, Zenon DEF SsLogin
  <2>p. PICK r \in ssUser[u], w \in SsWords :
            SsBegin(c, [at |-> "verify", user |-> u, role |-> r.role, word |-> w])
    BY <2>1, Zenon
  <2> DEFINE q == [at |-> "verify", user |-> u, role |-> r.role, word |-> w]
  <2>2. r.role \in SsRoles
    BY <1>0, SMTT(30) DEF SsRow
  <2>3. Goes(q)
    BY <2>p, <2>2, Zenon DEF SsBegin, SsCarries
  <2> QED
    BY <1>m, <2>3, Zenon
<1>4. CASE SsBeginRefresh(c)
  <2>1. PICK i \in 1 .. Len(ssPair) : SsBegin(c, [at |-> "consume", pair |-> i])
    BY <1>4, Zenon DEF SsBeginRefresh
  <2> DEFINE q == [at |-> "consume", pair |-> i]
  <2>2. Goes(q)
    BY <2>1, Zenon DEF SsBegin, SsCarries
  <2> QED
    BY <1>m, <2>2, Zenon
<1>5. CASE SsConsume(c)
  <2> DEFINE i == ssCall[c].pair
             q == [at |-> "reissue", pair |-> i]
  <2>1. i \in 1 .. Len(ssPair)
    BY <1>0, <1>5, Zenon DEF SsConsume, SsAt, SsCarries
  <2>2. Goes(q) \/ Goes(SsIdle)
    <3>1. SsCarries(q, 1 .. Len(ssPair))
      BY <2>1, Zenon DEF SsCarries
    <3> QED
      BY <1>5, <1>i, <3>1, Zenon DEF SsConsume, SsTo, SsDone
  <2> QED
    BY <1>m, <2>2, Zenon
<1>6. CASE SsAdminUpdate(c)
  <2>1. PICK u \in 1 .. SsUsers, b \in SsBody :
            SsBegin(c, [at |-> "role", user |-> u, body |-> b, changed |-> FALSE])
    BY <1>6, Zenon DEF SsAdminUpdate
  <2> DEFINE q == [at |-> "role", user |-> u, body |-> b, changed |-> FALSE]
  <2>2. Goes(q)
    BY <2>1, Zenon DEF SsBegin, SsCarries
  <2> QED
    BY <1>m, <2>2, Zenon
<1>7. CASE SsChangePassword(c)
  <2>1. PICK i \in 1 .. Len(ssPair), w \in SsWords :
            SsBegin(c, [at |-> "word", user |-> ssPair[i].user, changed |-> FALSE,
                        body |-> [role |-> {}, active |-> {}, word |-> {w}]])
    BY <1>7, Zenon DEF SsChangePassword
  <2> DEFINE body == [role |-> {}, active |-> {}, word |-> {w}]
             q == [at |-> "word", user |-> ssPair[i].user, changed |-> FALSE, body |-> body]
  <2>2. body \in SsBody /\ body.word # {}
    BY Zenon DEF SsBody
  <2>3. ssPair[i].user \in 1 .. SsUsers
    <3>1. ssPair[i] \in SsPairKinds
      <4> HIDE DEF SsPairKinds
      <4> QED
        BY <1>0
    <3> QED
      BY <3>1, Zenon DEF SsPairKinds
  <2>4. ssCall' = [ssCall EXCEPT ![c] = q]
    BY <2>1, Zenon DEF SsBegin
  <2> HIDE DEF body
  <2>5. SsCarries(q, 1 .. Len(ssPair))
    BY <2>2, <2>3, Zenon DEF SsCarries
  <2> HIDE DEF q
  <2> QED
    BY <1>m, <2>4, <2>5, Zenon
<1> QED
  BY <1>1, <1>2, <1>3, <1>4, <1>5, <1>6, <1>7, Zenon

\* Every step keeps accounts apart and pairs true to their accounts.
LEMMA SsStep == SsInv /\ [SsNextStep]_ssVars => SsInv'
<1> SUFFICES ASSUME SsInv, [SsNextStep]_ssVars PROVE SsInv'
  BY Zenon
<1>1. CASE SsCleanup \/ SsExpire \/ UNCHANGED ssVars
  <2>1. ssUser' = ssUser /\ ssNext' = ssNext /\ ssPair' = ssPair /\ ssCall' = ssCall
    BY <1>1, Zenon DEF SsCleanup, SsExpire, ssVars
  <2> QED
    BY <2>1, Zenon DEF SsInv, SsNamesDistinct, SsPairTrue
<1> QED
  BY <1>1, SsCreated, SsTokens, SsChanged, SsPassed, Zenon DEF SsNextStep

\* A session that the gateway still honours was opened with the password its account
\* has now, and no two accounts have one name, for any number of accounts, pairs,
\* requests and security changes.
THEOREM SessionsTrue == SsSpec => [](SsOfThisPassword /\ SsNamesDistinct)
<1>1. SsInit => SsInv
  <2> SUFFICES ASSUME SsInit PROVE SsInv
    BY Zenon
  <2> DEFINE admin == [name |-> CHOOSE n \in SsNames : TRUE, word |-> CHOOSE w \in SsWords : TRUE,
                       role |-> 1, active |-> TRUE, ver |-> 0]
  <2>1. ssUser = [u \in 1 .. SsUsers |-> IF u = 1 THEN {admin} ELSE {}] /\ ssNext = 2 /\ ssPair = <<>>
        /\ ssCall = [c \in SsCalls |-> SsIdle]
    BY Zenon DEF SsInit
  <2>2. admin \in SsRow
    BY DEF SsRow, SsRoles
  <2> HIDE DEF admin
  <2>3. ssUser \in [1 .. SsUsers -> SUBSET SsRow] /\ \A u \in 1 .. SsUsers : u >= ssNext => ssUser[u] = {}
    BY <2>1, <2>2
  <2>4. SsNamesDistinct /\ \A u \in 1 .. SsUsers : \A r, s \in ssUser[u] : r = s
    BY <2>1, Zenon DEF SsNamesDistinct
  <2>5. SsCarries(SsIdle, 1 .. Len(ssPair))
    BY Zenon DEF SsCarries, SsIdle
  <2>6. ssCall = [c \in SsCalls |-> ssCall[c]] /\ \A c \in SsCalls : SsCarries(ssCall[c], 1 .. Len(ssPair))
    <3> HIDE DEF SsIdle
    <3> QED
      BY <2>1, <2>5, Zenon
  <2>7. ssPair \in Seq(SsPairKinds) /\ Len(ssPair) = 0
    BY <2>1, SMTT(30)
  <2> QED
    BY <2>1, <2>3, <2>4, <2>6, <2>7 DEF SsInv
<1>2. SsInv => SsOfThisPassword /\ SsNamesDistinct
  <2> SUFFICES ASSUME SsInv, NEW i \in 1 .. Len(ssPair), SsCurrent(i), NEW r \in ssUser[ssPair[i].user]
               PROVE  r.word = ssPair[i].sound
    BY Zenon DEF SsOfThisPassword, SsInv
  <2>1. ssPair[i].user \in 1 .. SsUsers
    <3>1. ssPair[i] \in SsPairKinds
      <4>1. ssPair \in Seq(SsPairKinds)
        BY Zenon DEF SsInv
      <4> HIDE DEF SsPairKinds
      <4> QED
        BY <4>1
    <3> QED
      BY <3>1, Zenon DEF SsPairKinds
  <2>2. PICK s \in ssUser[ssPair[i].user] : s.ver = ssPair[i].ver
    BY Zenon DEF SsCurrent
  <2>3. r = s /\ SsPairTrue(ssPair[i])
    BY <2>1, <2>2 DEF SsInv
  <2> QED
    BY <2>2, <2>3, Zenon DEF SsPairTrue
<1> QED
  BY <1>1, <1>2, SsStep, PTL DEF SsSpec

-----------------------------------------------------------------------------
(* netsrv: the MQTT session *)

\* The connected flag and the permit, as the loop, the HTTP calls and the tasks
\* interleave.
MqInv == MqConnectedIsLive /\ MqNoLostWakeup

\* mqtt_connected is never left set once the session is over, and the loop never
\* sleeps through a reconnect call, for any number of publishers, subscriptions and
\* any capacity of the client's queue.
THEOREM SessionFlagsTrue == MqSpec => [](MqConnectedIsLive /\ MqNoLostWakeup)
<1>1. MqInit => MqInv
  BY Zenon DEF MqInit, MqInv, MqConnectedIsLive, MqNoLostWakeup
<1>2. MqInv /\ [MqNext]_mqVars => MqInv'
  <2> SUFFICES ASSUME MqInv, [MqNext]_mqVars PROVE MqInv'
    BY Zenon
  <2> USE DEF MqInv, MqConnectedIsLive, MqNoLostWakeup
  <2>1. CASE MqConfigure \/ MqOpen \/ MqConnAck \/ MqGreet \/ MqPoll \/ MqLost
    BY <2>1 DEF MqConfigure, MqOpen, MqConnAck, MqGreet, MqPoll, MqLost, mqFlags, mqLoopVars
  <2>2. CASE MqLeave \/ MqBye \/ MqWake \/ MqWaited
    BY <2>2 DEF MqLeave, MqBye, MqWake, MqWaited, mqFlags
  <2>3. CASE MqEnded
    <3>1. mqLoop' = IF mqShut THEN "stopped" ELSE IF mqDisc THEN "idle" ELSE "delay"
      BY <2>3, Zenon DEF MqEnded
    <3>2. ~mqConn /\ mqConn' = FALSE
      BY <2>3 DEF MqEnded
    <3>3. mqDisc' = mqDisc
      BY <2>3, Zenon DEF MqEnded
    <3> QED
      BY <3>1, <3>2, <3>3, Zenon
  <2>4. CASE MqWill \/ MqDisconnect \/ MqDisconnected \/ MqReconnect \/ MqUpdateConfig \/ MqShutdown
    BY <2>4 DEF MqWill, MqDisconnect, MqDisconnected, MqReconnect, MqUpdateConfig, MqShutdown, mqFlags, mqLoopVars
  <2>5. CASE \E p \in MqTasks, kind \in DOMAIN MqPublishes : MqStart(p, kind)
    BY <2>5 DEF MqStart, mqFlags, mqLoopVars
  <2>6. CASE \E p \in MqTasks : MqLockClient(p) \/ MqPublish(p)
    BY <2>6 DEF MqLockClient, MqPublish, mqFlags, mqLoopVars
  <2>7. CASE UNCHANGED mqVars
    BY <2>7, Zenon DEF mqVars, mqFlags, mqLoopVars
  <2> QED
    BY <2>1, <2>2, <2>3, <2>4, <2>5, <2>6, <2>7, Zenon DEF MqNext
<1> QED
  BY <1>1, <1>2, PTL DEF MqSpec, MqInv

-----------------------------------------------------------------------------
(* netsrv: the upload of the operation log *)

\* A row is on the wire only while run() waits for its acknowledgement, and one that
\* is acknowledged has reached the broker.
OpInv ==
    /\ opState = [r \in OpIds |-> opState[r]]
    /\ opWire # "none" => opAt = "ack"
    /\ opWire = "acked" => Head(opBatch) \in opSeen
    /\ OpNothingLost

\* A row of the operation log that is marked as uploaded, or pruned, has reached the
\* broker, for any number of rows and any size of a batch.
THEOREM LogReachesBroker == OpSpec => []OpNothingLost
<1>1. OpInit => OpInv
  BY Zenon DEF OpInit, OpInv, OpNothingLost
<1>2. OpInv /\ [OpNext]_opVars => OpInv'
  <2> SUFFICES ASSUME OpInv, [OpNext]_opVars PROVE OpInv'
    BY Zenon
  <2> USE DEF OpInv, OpNothingLost
  <2>1. CASE \E r \in OpIds : OpInsert(r)
    BY <2>1, Zenon DEF OpInsert
  <2>2. CASE OpPrune
    BY <2>2, Zenon DEF OpPrune
  <2>3. CASE OpFetch \/ OpConnect \/ OpPublish \/ OpReceive \/ OpDone \/ OpAbort \/ OpSwitch
    <3> HIDE DEF OpSelect
    <3> QED
      BY <2>3, Zenon DEF OpFetch, OpConnect, OpPublish, OpReceive, OpDone, OpAbort, OpSwitch
  <2>4. CASE OpMark
    BY <2>4, Zenon DEF OpMark
  <2>5. CASE UNCHANGED opVars
    BY <2>5, Zenon DEF opVars
  <2> QED
    BY <2>1, <2>2, <2>3, <2>4, <2>5, Zenon DEF OpNext
<1> QED
  BY <1>1, <1>2, PTL DEF OpSpec, OpInv

-----------------------------------------------------------------------------
(* apigateway: the WebSocket hub *)

\* The handle of a connection is under its own id, and in the hub as long as the
\* connection is not deregistered, silent for too long or replaced.
WsInv ==
    /\ wsAt \in [WsConns -> {"off", "hello", "open", "closing", "gone"}] /\ wsId \in [WsConns -> WsIds]
    /\ wsMap \in [WsIds -> WsConns \union {WsNone}] /\ wsIdle \in [WsConns -> Nat]
    /\ WsNoStaleHandle
    /\ \A k \in WsConns :
          wsAt[k] \in {"hello", "open"} /\ wsIdle[k] < WsLimit /\ (\A j \in WsConns \ {k} : wsId[j] # wsId[k])
          => WsHandle(k)

USE WsAssumption

\* Every step of a connection, of the heartbeat and of the push.
LEMMA WsStep == WsInv /\ [WsNext]_wsVars => WsInv'
<1> SUFFICES ASSUME WsInv, [WsNext]_wsVars PROVE WsInv'
  BY Zenon
<1> DEFINE Alone(k) == \A j \in WsConns \ {k} : wsId[j] # wsId[k]
           Held(k) == wsAt[k] \in {"hello", "open"} /\ wsIdle[k] < WsLimit /\ Alone(k) => WsHandle(k)
           Fresh(i) == wsMap[i] # WsNone => wsId[wsMap[i]] = i /\ wsAt[wsMap[i]] \in {"hello", "open", "closing"}
<1>0. /\ wsAt \in [WsConns -> {"off", "hello", "open", "closing", "gone"}] /\ wsId \in [WsConns -> WsIds]
      /\ wsMap \in [WsIds -> WsConns \union {WsNone}] /\ wsIdle \in [WsConns -> Nat]
      /\ \A i \in WsIds : Fresh(i)
      /\ \A k \in WsConns : Held(k)
  BY Zenon DEF WsInv, WsNoStaleHandle
<1>q. ASSUME wsAt' \in [WsConns -> {"off", "hello", "open", "closing", "gone"}], wsId' = wsId,
             wsMap' \in [WsIds -> WsConns \union {WsNone}], wsIdle' \in [WsConns -> Nat],
             \A i \in WsIds : Fresh(i)', \A k \in WsConns : Held(k)'
      PROVE  WsInv'
  BY <1>0, <1>q, Zenon DEF WsInv, WsNoStaleHandle
<1>1. ASSUME NEW k \in WsConns, WsRegister(k) PROVE WsInv'
  <2>1. /\ wsAt[k] = "off" /\ wsAt' = [wsAt EXCEPT ![k] = "hello"] /\ wsMap' = [wsMap EXCEPT ![wsId[k]] = k]
        /\ wsId' = wsId /\ wsIdle' = wsIdle
    BY <1>1, Zenon DEF WsRegister
  <2>2. \A i \in WsIds : wsMap'[i] = IF i = wsId[k] THEN k ELSE wsMap[i]
    BY <1>0, <2>1, Zenon
  <2>3. \A j \in WsConns : wsAt'[j] = IF j = k THEN "hello" ELSE wsAt[j]
    BY <1>0, <2>1, Zenon
  <2>4. ASSUME NEW i \in WsIds PROVE Fresh(i)'
    <3>1. wsMap[i] # WsNone => wsMap[i] \in WsConns
      BY <1>0, Zenon
    <3> QED
      BY <1>0, <2>1, <2>2, <2>3, <3>1
  <2>5. ASSUME NEW j \in WsConns PROVE Held(j)'
    <3>1. wsId[j] \in WsIds /\ wsId[k] \in WsIds
      BY <1>0, Zenon
    <3> QED
      BY <1>0, <2>1, <2>2, <2>3, <3>1 DEF WsHandle
  <2>6. /\ wsAt' \in [WsConns -> {"off", "hello", "open", "closing", "gone"}]
        /\ wsMap' \in [WsIds -> WsConns \union {WsNone}]
    BY <1>0, <2>1, Zenon
  <2> QED
    BY <1>0, <1>q, <2>1, <2>4, <2>5, <2>6, Zenon
<1>2. ASSUME NEW k \in WsConns, WsWelcome(k) \/ WsQueueClosed(k) \/ WsClose(k) PROVE WsInv'
  <2>1. /\ wsAt[k] \in {"hello", "open"} /\ wsMap' = wsMap /\ wsId' = wsId /\ wsIdle' = wsIdle
        /\ \E a \in {"open", "closing"} : wsAt' = [wsAt EXCEPT ![k] = a]
    BY <1>2, Zenon DEF WsWelcome, WsQueueClosed, WsClose
  <2>2. PICK a \in {"open", "closing"} : wsAt' = [wsAt EXCEPT ![k] = a]
    BY <2>1, Zenon
  <2>3. \A j \in WsConns : wsAt'[j] = IF j = k THEN a ELSE wsAt[j]
    BY <1>0, <2>2, Zenon
  <2>4. ASSUME NEW i \in WsIds PROVE Fresh(i)'
    <3>1. wsMap[i] # WsNone => wsMap[i] \in WsConns
      BY <1>0, Zenon
    <3> QED
      BY <1>0, <2>1, <2>3, <3>1, Zenon
  <2>5. ASSUME NEW j \in WsConns PROVE Held(j)'
    <3>1. Held(j)
      BY <1>0, Zenon
    <3> QED
      BY <2>1, <2>3, <3>1, Zenon DEF WsHandle
  <2>6. wsAt' \in [WsConns -> {"off", "hello", "open", "closing", "gone"}]
    BY <1>0, <2>2, Zenon
  <2> QED
    BY <1>0, <1>q, <2>1, <2>4, <2>5, <2>6, Zenon
<1>3. ASSUME NEW k \in WsConns, WsDeregister(k) PROVE WsInv'
  <2>1. /\ wsAt[k] = "closing" /\ wsAt' = [wsAt EXCEPT ![k] = "gone"] /\ wsMap' = [wsMap EXCEPT ![wsId[k]] = WsNone]
        /\ wsId' = wsId /\ wsIdle' = wsIdle
    BY <1>3, Zenon DEF WsDeregister, WsDrop
  <2>2. \A i \in WsIds : wsMap'[i] = IF i = wsId[k] THEN WsNone ELSE wsMap[i]
    BY <1>0, <2>1, Zenon
  <2>3. \A j \in WsConns : wsAt'[j] = IF j = k THEN "gone" ELSE wsAt[j]
    BY <1>0, <2>1, Zenon
  <2>4. ASSUME NEW i \in WsIds PROVE Fresh(i)'
    <3>1. wsMap[i] # WsNone => wsMap[i] \in WsConns
      BY <1>0, Zenon
    <3> QED
      BY <1>0, <2>1, <2>2, <2>3, <3>1
  <2>5. ASSUME NEW j \in WsConns PROVE Held(j)'
    <3>1. wsId[j] \in WsIds /\ wsId[k] \in WsIds /\ Held(j)
      BY <1>0, Zenon
    <3> QED
      BY <2>1, <2>2, <2>3, <3>1 DEF WsHandle
  <2>6. /\ wsAt' \in [WsConns -> {"off", "hello", "open", "closing", "gone"}]
        /\ wsMap' \in [WsIds -> WsConns \union {WsNone}]
    BY <1>0, <2>1, Zenon
  <2> QED
    BY <1>0, <1>q, <2>1, <2>4, <2>5, <2>6, Zenon
<1>4. ASSUME NEW k \in WsConns, WsMessage(k) PROVE WsInv'
  <2> DEFINE h == wsMap[wsId[k]]
  <2>1. /\ h # WsNone /\ wsIdle' = [wsIdle EXCEPT ![h] = 0]
        /\ wsAt' = wsAt /\ wsMap' = wsMap /\ wsId' = wsId
    BY <1>4, Zenon DEF WsMessage
  <2>2. wsId[k] \in WsIds /\ h \in WsConns /\ wsId[h] = wsId[k]
    BY <1>0, <2>1, Zenon
  <2>3. wsIdle' \in [WsConns -> Nat] /\ \A j \in WsConns : wsIdle'[j] = IF j = h THEN 0 ELSE wsIdle[j]
    BY <1>0, <2>1, <2>2, Zenon
  <2>4. ASSUME NEW j \in WsConns PROVE Held(j)'
    <3>1. CASE j = h
      BY <2>1, <2>2, <3>1, Zenon DEF WsHandle
    <3>2. CASE j # h
      <4>1. Held(j) /\ wsIdle'[j] = wsIdle[j]
        BY <1>0, <2>3, <3>2, Zenon
      <4> QED
        BY <2>1, <4>1, Zenon DEF WsHandle
    <3> QED
      BY <3>1, <3>2, Zenon
  <2>5. \A i \in WsIds : Fresh(i)'
    BY <1>0, <2>1, Zenon
  <2> QED
    BY <1>0, <1>q, <2>1, <2>3, <2>4, <2>5, Zenon
<1>5. CASE WsHeartbeat
  <2>1. /\ wsMap' = [i \in WsIds |-> IF wsMap[i] # WsNone /\ wsIdle[wsMap[i]] >= WsLimit THEN WsNone ELSE wsMap[i]]
        /\ wsIdle' = [k \in WsConns |-> IF wsAt[k] = "open" /\ wsIdle[k] < WsLimit THEN wsIdle[k] + 1 ELSE wsIdle[k]]
        /\ wsAt' = wsAt /\ wsId' = wsId
    BY <1>5, Zenon DEF WsHeartbeat
  <2>2. wsMap' \in [WsIds -> WsConns \union {WsNone}] /\ wsIdle' \in [WsConns -> Nat]
    BY <1>0, <2>1
  <2>3. ASSUME NEW i \in WsIds PROVE Fresh(i)'
    <3>1. wsMap'[i] # WsNone => wsMap'[i] = wsMap[i]
      BY <2>1, Zenon
    <3> QED
      BY <1>0, <2>1, <3>1, Zenon
  <2>4. ASSUME NEW j \in WsConns PROVE Held(j)'
    <3>1. Held(j) /\ wsIdle[j] \in Nat /\ wsId[j] \in WsIds
      BY <1>0, Zenon
    <3>2. wsIdle'[j] < WsLimit => wsIdle[j] < WsLimit
      BY <2>1, <3>1, Zenon
    <3>3. WsHandle(j) /\ wsIdle[j] < WsLimit => WsHandle(j)'
      <4>1. wsMap'[wsId[j]] = IF wsMap[wsId[j]] # WsNone /\ wsIdle[wsMap[wsId[j]]] >= WsLimit
                              THEN WsNone ELSE wsMap[wsId[j]]
        BY <2>1, <3>1, Zenon
      <4> QED
        BY <2>1, <3>1, <4>1, SMTT(30) DEF WsHandle
    <3> QED
      BY <2>1, <3>1, <3>2, <3>3, Zenon
  <2> QED
    BY <1>0, <1>q, <2>1, <2>2, <2>3, <2>4, Zenon
<1>6. CASE \/ WsPushStart \/ WsPushSend \/ WsBroadcast \/ UNCHANGED wsVars
           \/ \E k \in WsConns : WsForward(k)
           \/ \E i \in WsIds : WsPushRead(i)
  <2>1. wsAt' = wsAt /\ wsMap' = wsMap /\ wsId' = wsId /\ wsIdle' = wsIdle
    BY <1>6, Zenon DEF WsPushStart, WsPushSend, WsBroadcast, wsVars, WsForward, WsPushRead
  <2> QED
    BY <2>1, Zenon DEF WsInv, WsNoStaleHandle, WsHandle
<1> QED
  BY <1>1, <1>2, <1>3, <1>4, <1>5, <1>6, Zenon DEF WsNext

\* The hub holds no handle of a connection that has ended, and a connection alone
\* with its id keeps its handle as long as it is open and not silent for too long,
\* for any number of connections, ids and heartbeats.
THEOREM HubHoldsTheOpen == WsSpec => [](WsNoStaleHandle /\ WsActiveServed)
<1>1. WsInit => WsInv
  BY DEF WsInit, WsInv, WsNoStaleHandle
<1>2. WsInv => WsNoStaleHandle /\ WsActiveServed
  BY Zenon DEF WsInv, WsActiveServed
<1> QED
  BY <1>1, <1>2, WsStep, PTL DEF WsSpec

-----------------------------------------------------------------------------
(* What a run checks of the services, together *)

\* netsrv tells the truth about its session and its log, for any number of
\* publishers, subscriptions and rows.
THEOREM CloudCorrect == MqSpec /\ OpSpec => []CloudSound
<1>1. MqConnectedIsLive /\ MqNoLostWakeup /\ OpNothingLost => CloudSound
  BY Zenon DEF CloudSound
<1> QED
  BY <1>1, SessionFlagsTrue, LogReachesBroker, PTL

\* apigateway serves the connections that are there and honours the sessions that
\* still count, for any number of connections, accounts and requests.
THEOREM GatewayCorrect == WsSpec /\ SsSpec => []GatewaySound
<1>1. WsNoStaleHandle /\ WsActiveServed /\ SsOfThisPassword /\ SsNamesDistinct => GatewaySound
  BY Zenon DEF GatewaySound
<1> QED
  BY <1>1, HubHoldsTheOpen, SessionsTrue, PTL

=============================================================================
