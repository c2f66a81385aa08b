------------------------------ MODULE Gateway ------------------------------
(***************************************************************************)
(* apigateway: the WebSocket clients, the sessions of its users, and the network *)
(* settings it writes.                                                     *)
(***************************************************************************)
EXTENDS Integers, Sequences, FiniteSets

-----------------------------------------------------------------------------
(*--------------------------------- WsHub ---------------------------------*)
(***************************************************************************)
(* apigateway: WebSocket connections, the hub that maps a client id to the *)
(* handle of a connection, and the heartbeat that removes clients which    *)
(* have sent nothing for some time.                                        *)
(*                                                                         *)
(* A connection ends when its handle is dropped: its queue then closes,    *)
(* its send task returns, and handle_socket() deregisters the client id.   *)
(***************************************************************************)

CONSTANTS WsConns,   \* connections
          WsIds,     \* client ids a request may carry
          WsLimit,   \* heartbeats without a message after which a client is removed
          WsDepth    \* bound: messages waiting for a connection

WsNone == "none"

ASSUME WsAssumption == WsLimit \in Nat /\ WsDepth \in Nat /\ WsNone \notin WsConns /\ WsNone \notin WsIds

VARIABLES
    wsAt,     \* the handler: "off", "hello", "open", "closing" or "gone"
    wsId,     \* client id of a connection
    wsMap,    \* clients: the connection whose handle an id has
    wsQueue,  \* messages waiting for a connection
    wsSub,    \* connections with a subscription
    wsIdle,   \* heartbeats since the last message of a connection
    wsPush    \* run_data_push(): the ids it has listed and not served; the one it reads for

wsVars == <<wsAt, wsId, wsMap, wsQueue, wsSub, wsIdle, wsPush>>

WsInit ==
    /\ wsAt = [k \in WsConns |-> "off"] /\ wsId \in [WsConns -> WsIds]
    /\ wsMap = [i \in WsIds |-> WsNone] /\ wsQueue = [k \in WsConns |-> 0] /\ wsSub = {}
    /\ wsIdle = [k \in WsConns |-> 0] /\ wsPush = [ids |-> {}, now |-> WsNone]

WsHandle(k) == wsMap[wsId[k]] = k          \* the hub holds the handle of k
WsDrop(i) == [wsMap EXCEPT ![i] = WsNone]
WsSend(ks) == [k \in WsConns |-> IF k \in ks /\ wsQueue[k] < WsDepth THEN wsQueue[k] + 1 ELSE wsQueue[k]]
WsHeld == {k \in WsConns : WsHandle(k)}

----------------------------------------------------------------------------
(* handle_socket() *)

\* register(): a handle of the same id is replaced, and dropped.
WsRegister(k) ==
    /\ wsAt[k] = "off"
    /\ wsAt' = [wsAt EXCEPT ![k] = "hello"]
    /\ wsMap' = [wsMap EXCEPT ![wsId[k]] = k]
    /\ UNCHANGED <<wsId, wsQueue, wsSub, wsIdle, wsPush>>

WsWelcome(k) ==
    /\ wsAt[k] = "hello"
    /\ \/ wsAt' = [wsAt EXCEPT ![k] = "open"]
       \/ wsAt' = [wsAt EXCEPT ![k] = "closing"]        \* the client has gone
    /\ UNCHANGED <<wsId, wsMap, wsQueue, wsSub, wsIdle, wsPush>>

\* The send task forwards a message; a queue that is empty and has no handle
\* any more ends it.
WsForward(k) ==
    /\ wsAt[k] = "open" /\ wsQueue[k] > 0
    /\ wsQueue' = [wsQueue EXCEPT ![k] = @ - 1]
    /\ UNCHANGED <<wsAt, wsId, wsMap, wsSub, wsIdle, wsPush>>

WsQueueClosed(k) ==
    /\ wsAt[k] = "open" /\ wsQueue[k] = 0 /\ ~WsHandle(k)
    /\ wsAt' = [wsAt EXCEPT ![k] = "closing"]
    /\ UNCHANGED <<wsId, wsMap, wsQueue, wsSub, wsIdle, wsPush>>

\* The socket breaks or the client closes it: one task ends, the other is aborted.
WsClose(k) ==
    /\ wsAt[k] = "open"
    /\ wsAt' = [wsAt EXCEPT ![k] = "closing"]
    /\ UNCHANGED <<wsId, wsMap, wsQueue, wsSub, wsIdle, wsPush>>

WsDeregister(k) ==
    /\ wsAt[k] = "closing"
    /\ wsAt' = [wsAt EXCEPT ![k] = "gone"]
    /\ wsMap' = WsDrop(wsId[k])
    /\ wsQueue' = [wsQueue EXCEPT ![k] = 0] /\ wsSub' = wsSub \ {k}
    /\ UNCHANGED <<wsId, wsIdle, wsPush>>

\* A text message: the activity, the subscription and the answer go to the
\* handle that the client id has now.
WsMessage(k) ==
    /\ wsAt[k] = "open"
    /\ LET h == wsMap[wsId[k]]
       IN  /\ h # WsNone
           /\ wsIdle' = [wsIdle EXCEPT ![h] = 0]
           /\ wsSub' \in {wsSub, wsSub \union {h}, wsSub \ {h}}
           /\ wsQueue' = WsSend({h})
    /\ UNCHANGED <<wsAt, wsId, wsMap, wsPush>>

----------------------------------------------------------------------------
(* The background tasks *)

\* run_heartbeat(): a ping for every client, then cleanup_inactive().  The pong
\* of a browser reaches the receive loop, which ignores it.
WsHeartbeat ==
    /\ wsQueue' = WsSend(WsHeld)
    /\ wsMap' = [i \in WsIds |->
                    IF wsMap[i] # WsNone /\ wsIdle[wsMap[i]] >= WsLimit THEN WsNone ELSE wsMap[i]]
    /\ wsIdle' = [k \in WsConns |-> IF wsAt[k] = "open" /\ wsIdle[k] < WsLimit THEN wsIdle[k] + 1 ELSE wsIdle[k]]
    /\ UNCHANGED <<wsAt, wsId, wsSub, wsPush>>

\* run_data_push(): the ids are listed, then served one after the other; Redis
\* is read between the look at the subscription and the message.
WsPushStart ==
    /\ wsPush = [ids |-> {}, now |-> WsNone] /\ WsHeld # {}
    /\ wsPush' = [ids |-> {i \in WsIds : wsMap[i] # WsNone}, now |-> WsNone]
    /\ UNCHANGED <<wsAt, wsId, wsMap, wsQueue, wsSub, wsIdle>>

WsPushRead(i) ==
    /\ i \in wsPush.ids /\ wsPush.now = WsNone
    /\ wsPush' = [ids |-> wsPush.ids \ {i},
                  now |-> IF wsMap[i] \in wsSub THEN i ELSE WsNone]
    /\ UNCHANGED <<wsAt, wsId, wsMap, wsQueue, wsSub, wsIdle>>

WsPushSend ==
    /\ wsPush.now # WsNone
    /\ wsPush' = [wsPush EXCEPT !.now = WsNone]
    /\ wsQueue' = WsSend({wsMap[wsPush.now]} \ {WsNone})
    /\ UNCHANGED <<wsAt, wsId, wsMap, wsSub, wsIdle>>

\* broadcast_message() of the HTTP API.
WsBroadcast ==
    /\ WsHeld # {}
    /\ wsQueue' = WsSend(WsHeld)
    /\ UNCHANGED <<wsAt, wsId, wsMap, wsSub, wsIdle, wsPush>>

WsNext ==
    \/ \E k \in WsConns : \/ WsRegister(k) \/ WsWelcome(k) \/ WsForward(k) \/ WsQueueClosed(k)
                          \/ WsClose(k) \/ WsDeregister(k) \/ WsMessage(k)
    \/ WsHeartbeat \/ WsPushStart \/ WsPushSend \/ WsBroadcast
    \/ \E i \in WsIds : WsPushRead(i)

WsSpec == WsInit /\ [][WsNext]_wsVars

----------------------------------------------------------------------------
(* Properties *)

WsTypeOK ==
    /\ wsAt \in [WsConns -> {"off", "hello", "open", "closing", "gone"}] /\ wsId \in [WsConns -> WsIds]
    /\ wsMap \in [WsIds -> WsConns \union {WsNone}] /\ wsQueue \in [WsConns -> 0 .. WsDepth]
    /\ wsSub \subseteq WsConns /\ wsIdle \in [WsConns -> 0 .. WsLimit]
    /\ wsPush \in [ids : SUBSET WsIds, now : WsIds \union {WsNone}]

\* The hub holds no handle of a connection that has ended: whichever of the
\* tasks ends first, the client is deregistered, so the broadcast and the
\* connection count never include it.
WsNoStaleHandle ==
    \A i \in WsIds : wsMap[i] # WsNone => wsId[wsMap[i]] = i /\ wsAt[wsMap[i]] \in {"hello", "open", "closing"}

\* A connection whose id no other connection uses keeps its handle as long as it
\* is open and sends something between two heartbeats in WsLimit.
WsActiveServed ==
    \A k \in WsConns :
        wsAt[k] = "open" /\ wsIdle[k] < WsLimit /\ (\A j \in WsConns \ {k} : wsId[j] # wsId[k])
        => WsHandle(k)

-----------------------------------------------------------------------------
(*-------------------------------- Sessions -------------------------------*)
(***************************************************************************)
(* Accounts and sessions of the API gateway (apigateway auth.rs, db.rs,    *)
(* routes_auth.rs, middleware_auth.rs).                                    *)
(*                                                                         *)
(* An account carries a password, a role, an active flag and an            *)
(* authentication version that every security change increments.  A login  *)
(* issues a pair of signed tokens holding the version; the refresh half is *)
(* also kept in a table in memory, consumed by a refresh and emptied of a  *)
(* user's tokens by a security change.  Requests interleave between their  *)
(* database calls, which is where a token could outlive what it stands     *)
(* for.                                                                    *)
(***************************************************************************)

CONSTANTS
  SsNames,      \* user names
  SsWords,      \* passwords
  SsCalls,      \* requests in flight at once
  SsUsers,      \* bound: accounts ever created
  SsPairs,      \* bound: token pairs ever issued
  SsRequests,   \* bound: requests begun
  SsChanges     \* bound: security changes of one account

ASSUME SsAssumption == /\ SsUsers \in Nat \ {0}
                       /\ SsPairs \in Nat
                       /\ SsRequests \in Nat
                       /\ SsChanges \in Nat
                       /\ SsNames # {} /\ SsWords # {}

VARIABLES
  ssUser,       \* users: id -> {row} or {}
  ssNext,       \* the next id AUTOINCREMENT gives
  ssPair,       \* the pairs issued, oldest first
  ssStored,     \* refresh_tokens: the pairs whose refresh half is on the table
  ssAge,        \* of each pair: 0 fresh, 1 access half expired, 2 both expired
  ssCall,       \* the requests in flight
  ssLeft        \* requests still to begin

ssVars == <<ssUser, ssNext, ssPair, ssStored, ssAge, ssCall, ssLeft>>

SsRoles == {1, 3}                      \* Admin and Viewer, the default role

SsRow == [name : SsNames, word : SsWords, role : SsRoles, active : BOOLEAN,
          ver : 0..SsChanges]

SsIdle == [at |-> "idle"]

(* What a request asks an account to become; an empty set leaves a field. *)
SsBody == [role : {{}, {1}}, active : {{}, {TRUE}, {FALSE}}, word : {{}} \cup {{w} : w \in SsWords}]

SsTypeOK ==
  /\ ssUser \in [1..SsUsers -> {{}} \cup {{r} : r \in SsRow}]
  /\ ssNext \in 1..(SsUsers + 1)
  /\ Len(ssPair) <= SsPairs
  /\ ssStored \subseteq 1..SsPairs
  /\ ssAge \in [1..SsPairs -> 0..2]
  /\ DOMAIN ssCall = SsCalls
  /\ ssLeft \in 0..SsRequests

SsInit ==
  /\ LET admin == [name |-> CHOOSE n \in SsNames : TRUE,
                   word |-> CHOOSE w \in SsWords : TRUE,
                   role |-> 1, active |-> TRUE, ver |-> 0]
     IN  ssUser = [u \in 1..SsUsers |-> IF u = 1 THEN {admin} ELSE {}]
  /\ ssNext = 2
  /\ ssPair = <<>>
  /\ ssStored = {}
  /\ ssAge = [i \in 1..SsPairs |-> 0]
  /\ ssCall = [c \in SsCalls |-> SsIdle]
  /\ ssLeft = SsRequests

SsAt(c, s) == ssCall[c].at = s
SsTo(c, r) == ssCall' = [ssCall EXCEPT ![c] = r] /\ UNCHANGED ssLeft
SsDone(c)  == SsTo(c, SsIdle)

(* A request begins: its first database call was made. *)
SsBegin(c, r) ==
  /\ SsAt(c, "idle")
  /\ ssLeft > 0
  /\ ssLeft' = ssLeft - 1
  /\ ssCall' = [ssCall EXCEPT ![c] = r]

(* validate_current_claims: the account behind a pair is there, active and at *)
(* the pair's version.                                                        *)
SsCurrent(i) ==
  \E r \in ssUser[ssPair[i].user] : r.active /\ r.ver = ssPair[i].ver

(* validate_access_token and validate_refresh_token. *)
SsAccess(i)  == ssAge[i] = 0 /\ SsCurrent(i)
SsRefresh(i) == ssAge[i] < 2 /\ SsCurrent(i)

(* require_admin: an access token whose role is Admin. *)
SsAdmin == \E i \in 1..Len(ssPair) : SsAccess(i) /\ ssPair[i].role = 1

(* create_token_pair and the insertion into the table; sound is a history  *)
(* field: the password the session was opened with.                        *)
SsIssue(u, ver, role, word) ==
  /\ Len(ssPair) < SsPairs
  /\ ssPair' = Append(ssPair, [user |-> u, ver |-> ver, role |-> role, sound |-> word])
  /\ ssStored' = ssStored \cup {Len(ssPair) + 1}
  /\ UNCHANGED <<ssUser, ssNext, ssAge>>

-----------------------------------------------------------------------------
(* register: the name is looked up ... *)
SsRegister(c) ==
  /\ \E n \in SsNames, w \in SsWords :
       /\ \A u \in 1..SsUsers : \A r \in ssUser[u] : r.name # n
       /\ SsBegin(c, [at |-> "insert", name |-> n, word |-> w])
  /\ UNCHANGED <<ssUser, ssNext, ssPair, ssStored, ssAge>>

(* ... and inserted after the password is hashed; the UNIQUE name refuses  *)
(* the later of two requests.                                              *)
SsCreateUser(c) ==
  /\ SsAt(c, "insert")
  /\ SsDone(c)
  /\ IF \E u \in 1..SsUsers : \E r \in ssUser[u] : r.name = ssCall[c].name
     THEN UNCHANGED <<ssUser, ssNext>>
     ELSE /\ ssNext <= SsUsers
          /\ ssUser' = [ssUser EXCEPT ![ssNext] =
                          {[name |-> ssCall[c].name, word |-> ssCall[c].word,
                            role |-> 3, active |-> TRUE, ver |-> 0]}]
          /\ ssNext' = ssNext + 1
  /\ UNCHANGED <<ssPair, ssStored, ssAge>>

(* login: the account is read with its role; a disabled one is refused. *)
SsLogin(c) ==
  /\ \E u \in 1..SsUsers : \E r \in ssUser[u], w \in SsWords :
       r.active /\ SsBegin(c, [at |-> "verify", user |-> u, role |-> r.role, word |-> w])
  /\ UNCHANGED <<ssUser, ssNext, ssPair, ssStored, ssAge>>

(* It is read again for the password and the version, the password is      *)
(* verified, and the pair is issued.                                       *)
SsVerify(c) ==
  /\ SsAt(c, "verify")
  /\ SsDone(c)
  /\ LET q == ssCall[c]
     IN  \/ /\ \A r \in ssUser[q.user] : r.word # q.word
            /\ UNCHANGED <<ssUser, ssNext, ssPair, ssStored, ssAge>>
         \/ \E r \in ssUser[q.user] :
              r.word = q.word /\ SsIssue(q.user, r.ver, q.role, q.word)

(* refresh_token: the refresh half is validated against the account ... *)
SsBeginRefresh(c) ==
  /\ \E i \in 1..Len(ssPair) :
       SsRefresh(i) /\ SsBegin(c, [at |-> "consume", pair |-> i])
  /\ UNCHANGED <<ssUser, ssNext, ssPair, ssStored, ssAge>>

(* ... looked up in the table, then taken off it; one that is missing or   *)
(* expired ends the request.                                               *)
SsConsume(c) ==
  /\ SsAt(c, "consume")
  /\ LET i == ssCall[c].pair
     IN  /\ ssStored' = ssStored \ {i}
         /\ IF i \in ssStored /\ ssAge[i] < 2
            THEN SsTo(c, [at |-> "reissue", pair |-> i])
            ELSE SsDone(c)
  /\ UNCHANGED <<ssUser, ssNext, ssPair, ssAge>>

(* The account is read once more for its role; the new pair keeps the      *)
(* version the old one proved.                                             *)
SsReissue(c) ==
  /\ SsAt(c, "reissue")
  /\ SsDone(c)
  /\ LET p == ssPair[ssCall[c].pair]
     IN  IF ssUser[p.user] = {} THEN UNCHANGED <<ssUser, ssNext, ssPair, ssStored, ssAge>>
         ELSE \E r \in ssUser[p.user] : SsIssue(p.user, p.ver, r.role, p.sound)

(* logout takes the refresh half off the table, whatever else is true. *)
SsLogout(c) ==
  /\ SsBegin(c, SsIdle)
  /\ \E i \in 1..Len(ssPair) : ssAge[i] < 2 /\ ssStored' = ssStored \ {i}
  /\ UNCHANGED <<ssUser, ssNext, ssPair, ssAge>>

-----------------------------------------------------------------------------
(* admin_update_user, and update_me by an administrator: the fields are    *)
(* applied one database call at a time.                                    *)
SsAdminUpdate(c) ==
  /\ SsAdmin
  /\ \E u \in 1..SsUsers, b \in SsBody :
       ssUser[u] # {} /\ SsBegin(c, [at |-> "role", user |-> u, body |-> b, changed |-> FALSE])
  /\ UNCHANGED <<ssUser, ssNext, ssPair, ssStored, ssAge>>

(* update_user_role and update_user_active: a value that differs is stored *)
(* with the next version.                                                  *)
SsSetRole(c) ==
  /\ SsAt(c, "role")
  /\ LET q == ssCall[c]
         hit == {r \in ssUser[q.user] : \E v \in q.body.role : r.role # v}
     IN  /\ \A r \in hit : r.ver < SsChanges
         /\ ssUser' = [ssUser EXCEPT ![q.user] =
              IF hit = {} THEN @ ELSE {[r EXCEPT !.role = CHOOSE v \in q.body.role : TRUE,
                                                 !.ver = @ + 1] : r \in hit}]
         /\ SsTo(c, [q EXCEPT !.at = "active", !.changed = @ \/ hit # {}])
  /\ UNCHANGED <<ssNext, ssPair, ssStored, ssAge>>

SsSetActive(c) ==
  /\ SsAt(c, "active")
  /\ LET q == ssCall[c]
         hit == {r \in ssUser[q.user] : \E v \in q.body.active : r.active # v}
     IN  /\ \A r \in hit : r.ver < SsChanges
         /\ ssUser' = [ssUser EXCEPT ![q.user] =
              IF hit = {} THEN @ ELSE {[r EXCEPT !.active = CHOOSE v \in q.body.active : TRUE,
                                                 !.ver = @ + 1] : r \in hit}]
         /\ SsTo(c, [q EXCEPT !.at = IF q.body.word = {} THEN "revoke" ELSE "word",
                              !.changed = @ \/ hit # {}])
  /\ UNCHANGED <<ssNext, ssPair, ssStored, ssAge>>

(* A database call that fails ends the request where it stands: what was   *)
(* stored before stays, and the table keeps the user's tokens.             *)
SsFail(c) ==
  /\ ssCall[c].at \in {"role", "active", "word"}
  /\ SsDone(c)
  /\ UNCHANGED <<ssUser, ssNext, ssPair, ssStored, ssAge>>

(* change_password: the current password is verified against the row ... *)
SsChangePassword(c) ==
  /\ \E i \in 1..Len(ssPair), w \in SsWords :
       /\ SsAccess(i)
       /\ SsBegin(c, [at |-> "word", user |-> ssPair[i].user, changed |-> FALSE,
                   body |-> [role |-> {}, active |-> {}, word |-> {w}]])
  /\ UNCHANGED <<ssUser, ssNext, ssPair, ssStored, ssAge>>

\* Mutant: the version stays.
SsSetPasswordSameVersion(c) ==
  /\ SsAt(c, "word")
  /\ LET q == ssCall[c]
     IN  /\ \A r \in ssUser[q.user] : r.ver < SsChanges
         /\ ssUser' = [ssUser EXCEPT ![q.user] =
              {[r EXCEPT !.word = CHOOSE v \in q.body.word : TRUE] : r \in @}]
         /\ SsTo(c, [q EXCEPT !.at = "revoke", !.changed = TRUE])
  /\ UNCHANGED <<ssNext, ssPair, ssStored, ssAge>>

(* ... and update_user_password stores the new one with the next version,  *)
(* for a change and for an administrator's reset alike.                    *)
SsSetPassword(c) ==
  /\ SsAt(c, "word")
  /\ LET q == ssCall[c]
     IN  /\ \A r \in ssUser[q.user] : r.ver < SsChanges
         /\ ssUser' = [ssUser EXCEPT ![q.user] =
              {[r EXCEPT !.word = CHOOSE v \in q.body.word : TRUE, !.ver = @ + 1] : r \in @}]
         /\ SsTo(c, [q EXCEPT !.at = "revoke", !.changed = TRUE])
  /\ UNCHANGED <<ssNext, ssPair, ssStored, ssAge>>

(* revoke_user_refresh_tokens, when something changed. *)
SsRevoke(c) ==
  /\ SsAt(c, "revoke")
  /\ SsDone(c)
  /\ ssStored' = IF ssCall[c].changed
                 THEN {i \in ssStored : ssPair[i].user # ssCall[c].user} ELSE ssStored
  /\ UNCHANGED <<ssUser, ssNext, ssPair, ssAge>>

(* admin_delete_user: the row goes, then the user's tokens; the default    *)
(* administrator (the first account) stays.                                *)
SsDeleteUser(c) ==
  /\ SsAdmin
  /\ \E u \in 2..SsUsers :
       /\ ssUser[u] # {}
       /\ ssUser' = [ssUser EXCEPT ![u] = {}]
       /\ SsBegin(c, [at |-> "revoke", user |-> u, changed |-> TRUE])
  /\ UNCHANGED <<ssNext, ssPair, ssStored, ssAge>>

(* cleanup_tokens: an administrator drops the expired entries. *)
SsCleanup ==
  /\ SsAdmin
  /\ ssStored' = {i \in ssStored : ssAge[i] < 2}
  /\ UNCHANGED <<ssUser, ssNext, ssPair, ssAge, ssCall, ssLeft>>

(* Time passes for a pair. *)
SsExpire ==
  /\ \E i \in 1..Len(ssPair) : ssAge[i] < 2 /\ ssAge' = [ssAge EXCEPT ![i] = @ + 1]
  /\ UNCHANGED <<ssUser, ssNext, ssPair, ssStored, ssCall, ssLeft>>

SsNextStep ==
  \/ \E c \in SsCalls :
       \/ SsRegister(c) \/ SsCreateUser(c) \/ SsLogin(c) \/ SsVerify(c)
       \/ SsBeginRefresh(c) \/ SsConsume(c) \/ SsReissue(c) \/ SsLogout(c)
       \/ SsAdminUpdate(c) \/ SsSetRole(c) \/ SsSetActive(c) \/ SsFail(c)
       \/ SsChangePassword(c) \/ SsSetPassword(c) \/ SsRevoke(c) \/ SsDeleteUser(c)
  \/ SsCleanup
  \/ SsExpire

SsSpec == SsInit /\ [][SsNextStep]_ssVars

-----------------------------------------------------------------------------
(* A session the gateway still honours was opened with the password the    *)
(* account has now: whatever the order of logins, refreshes, password      *)
(* changes and deletions, no pair that passes validate_current_claims      *)
(* goes back to an earlier password or to an account of the past.          *)
SsOfThisPassword ==
  \A i \in 1..Len(ssPair) : SsCurrent(i) =>
    \A r \in ssUser[ssPair[i].user] : r.word = ssPair[i].sound

(* Two registrations of one name that both found it free leave one account *)
(* of that name: the look-up in register and the insertion are two steps.  *)
SsNamesDistinct ==
  \A u, v \in 1..SsUsers : \A r \in ssUser[u], s \in ssUser[v] :
    r.name = s.name => u = v

-----------------------------------------------------------------------------
(*------------------------------ NetworkFiles -----------------------------*)
(***************************************************************************)
(* The network settings of the gateway (apigateway routes_network.rs).     *)
(* update_network_config writes the systemd-networkd file of a LAN port:   *)
(* the lines of the mode that is off are written as comments, and          *)
(* get_network_config reads the active lines first and the commented ones  *)
(* where there is none, so that the static address survives a spell of     *)
(* DHCP.  A line is <<commented, key, value>>; an absent value is "".      *)
(***************************************************************************)

CONSTANTS NfIps,      \* addresses
          NfHosts,    \* gateways and name servers
          NfBits,     \* bits of an address, 32
          NfLengths,  \* lengths of the masks sent
          NfUpdates   \* bound: updates of a port

ASSUME NfAssumption == NfBits \in Nat \ {0} /\ NfUpdates \in Nat

VARIABLES nfFile,     \* the lines of the file; <<>> when there is none
          nfShown,    \* what get_network_config answers
          nfAsked,    \* the request accepted last
          nfLeft      \* updates still to come

nfVars == <<nfFile, nfShown, nfAsked, nfLeft>>

NfNone == ""

(* cidr_to_mask: a mask is the tuple of its bits. *)
NfMask(c) == [b \in 1..NfBits |-> IF b <= c THEN 1 ELSE 0]

(* mask_to_cidr: the trailing zeros give the length, and the mask must be  *)
(* the ones above them; -1 when it is not.                                 *)
NfCidr(mask) ==
  IF \A b \in 1..NfBits : mask[b] = 0 THEN 0
  ELSE LET last == CHOOSE b \in 1..NfBits : mask[b] = 1 /\ \A d \in (b + 1)..NfBits : mask[d] = 0
       IN  IF NfMask(last) = mask THEN last ELSE -1

(* A request: the mask is a tuple of bits, or <<>> when it is left out. *)
NfRequests == [dhcp : BOOLEAN, ip : NfIps \cup {NfNone},
               mask : {<<>>} \cup {NfMask(c) : c \in NfLengths}
                             \cup {[b \in 1..NfBits |-> IF b = 2 THEN 0 ELSE 1]},
               gateway : NfHosts \cup {NfNone}, dns1 : NfHosts \cup {NfNone}, dns2 : NfHosts \cup {NfNone}]

(* build_config *)
NfBuild(q, c) ==
  << <<~q.dhcp, "DHCP", "yes">>,
     <<q.dhcp, "Address", IF q.ip = NfNone THEN <<>> ELSE <<q.ip, c>> >>,
     <<q.dhcp, "Gateway", q.gateway>>,
     <<q.dhcp, "DNS", q.dns1>>,
     <<q.dhcp, "DNS", q.dns2>> >>

(* parse_config: of the lines of a key, active or commented. *)
NfLines(file, off, key) == SelectSeq(file, LAMBDA l : l[1] = off /\ l[2] = key)
NfFirst(lines, n, none) == IF Len(lines) < n THEN none ELSE lines[n][3]

NfPick(file, key, n, none) ==
  LET on == NfFirst(NfLines(file, FALSE, key), n, none)
  IN  IF on # none THEN on ELSE NfFirst(NfLines(file, TRUE, key), n, none)

NfParse(file) ==
  LET address == NfPick(file, "Address", 1, <<>>)
  IN  [dhcp    |-> NfLines(file, FALSE, "DHCP") # <<>>,
       ip      |-> IF address = <<>> THEN NfNone ELSE address[1],
       mask    |-> IF address = <<>> THEN <<>> ELSE NfMask(address[2]),
       gateway |-> NfPick(file, "Gateway", 1, NfNone),
       dns1    |-> NfPick(file, "DNS", 1, NfNone),
       dns2    |-> NfPick(file, "DNS", 2, NfNone)]

-----------------------------------------------------------------------------
NfInit ==
  /\ nfFile = <<>>
  /\ nfShown = NfParse(<<>>)
  /\ nfAsked = NfParse(<<>>)
  /\ nfLeft = NfUpdates

(* update_network_config: a static address needs an address and a mask,    *)
(* and a mask must be one.                                                 *)
NfAccepted(q) ==
  /\ ~q.dhcp => q.ip # NfNone /\ q.mask # <<>>
  /\ q.mask # <<>> => NfCidr(q.mask) >= 0

NfUpdate(q) ==
  /\ nfLeft > 0
  /\ NfAccepted(q)
  /\ nfFile' = NfBuild(q, IF q.mask = <<>> THEN 0 ELSE NfCidr(q.mask))
  /\ nfShown' = NfParse(nfFile')
  /\ nfAsked' = q
  /\ nfLeft' = nfLeft - 1

(* The frontend switches the mode and sends back what it was shown. *)
NfSwitch ==
  /\ nfFile # <<>>
  /\ NfUpdate([nfShown EXCEPT !.dhcp = ~@])

NfNext == (\E q \in NfRequests : NfUpdate(q)) \/ NfSwitch

NfSpec == NfInit /\ [][NfNext]_nfVars

-----------------------------------------------------------------------------
(* What an accepted update set is what the next reading shows, in either   *)
(* mode; only a DHCP setting with an address and no mask comes back with   *)
(* the mask of length zero build_config wrote for it.                      *)
NfReadsBack ==
  /\ [nfShown EXCEPT !.mask = <<>>] = [nfAsked EXCEPT !.mask = <<>>]
  /\ nfAsked.ip # NfNone =>
       nfShown.mask = IF nfAsked.mask = <<>> THEN NfMask(0) ELSE nfAsked.mask

(* Switching the mode with what the page shows loses nothing of the        *)
(* static address, gateway and name servers.                               *)
NfSwitchKeeps ==
  [][NfSwitch => [nfShown' EXCEPT !.dhcp = FALSE] = [nfShown EXCEPT !.dhcp = FALSE]]_nfVars

-----------------------------------------------------------------------------
\* The clients of apigateway are who they seem: the hub holds no handle of a connection that
\* is gone and keeps those of active ones, a session that is honoured was opened with the
\* password its account has now, and no two accounts have one name.
GatewaySound == WsNoStaleHandle /\ WsActiveServed /\ SsOfThisPassword /\ SsNamesDistinct

=============================================================================
