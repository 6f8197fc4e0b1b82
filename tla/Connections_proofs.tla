------------------------- MODULE Connections_proofs -------------------------
(***************************************************************************)
(* Proofs about who is connected to the server: the sessions and logins of *)
(* a user (AuthSessions), the owner's account (Account) and the agent's    *)
(* WebSocket with its flags (FeatureFlags), for any number of devices,     *)
(* browsers, tokens, codes, connections, updates and failures.             *)
(***************************************************************************)
EXTENDS AuthSessions, Account, FeatureFlags, FiniteSetTheorems, TLAPS
-----------------------------------------------------------------------------
(* Sessions: what the requests are made of. *)

\* Where a request deals with the session it has as id.
WithSession == {"set", "sadd", "blacklist", "rotate", "uncache", "forget"}
Stage == WithSession \cup {"resting", "password", "failed", "refresh", "purge", "delete"}

SessionIds(S) == {s.id : s \in S}
Issued == {n \in Nat : n < nextToken}

\* Types; sessions, tokens and members are numbers that were issued.
SessionTypeOK ==
    /\ nextToken \in Nat \ {0}
    /\ redisFaults \in Nat /\ guesses \in Nat
    /\ attempts \in [count : Nat, expires : BOOLEAN]
    /\ lockout \in BOOLEAN /\ disturbed \in BOOLEAN
    /\ op \in [Device -> [at : Stage, token : Nat, id : Nat, ids : SUBSET Nat]]
    /\ \A x \in Device : op[x].at \in WithSession => op[x].id \in Issued
    /\ \A x \in Device : op[x].token < nextToken
    /\ sessions \subseteq [id : Issued, token : Issued]
    /\ members \subseteq Issued /\ revoked \subseteq Issued
    /\ exchanged \subseteq Issued \X Issued

\* No two sessions have an id or a token in common.
SessionsDistinct ==
    \A s, r \in sessions : s.id = r.id \/ s.token = r.token => s = r

\* The devices whose refresh has found its session and not yet rotated it.
Holds(x, t) == op[x].at \in {"blacklist", "rotate"} /\ op[x].token = t

\* What has been exchanged is no session's token any more; who still holds it
\* is contending, and so are two who hold the same.
Rotation ==
    /\ \A p \in exchanged, s \in sessions : s.token # p[1]
    /\ \A p \in exchanged, x \in Device : Holds(x, p[1]) => p[1] \in contended
    /\ \A x, y \in Device, t \in Nat : x # y /\ Holds(x, t) /\ Holds(y, t) => t \in contended
    /\ \A x \in Device, s \in sessions : Holds(x, s.token) => s.id = op[x].id

RefreshInv == SessionTypeOK /\ SessionsDistinct /\ Rotation /\ RefreshUsedOnce

OpType == [at : Stage, token : Nat, id : Nat, ids : SUBSET Nat]

\* A request's next stage may be any that names an issued session and token.
LEMMA GotoType ==
    ASSUME SessionTypeOK, NEW x \in Device, NEW next \in OpType, Goto(x, next),
           nextToken' \in Nat, nextToken <= nextToken',
           next.at \in WithSession => next.id \in Issued', next.token < nextToken'
    PROVE  /\ op' \in [Device -> OpType]
           /\ \A y \in Device : op'[y].at \in WithSession => op'[y].id \in Issued'
           /\ \A y \in Device : op'[y].token < nextToken'
<1>1. op \in [Device -> OpType] /\ nextToken \in Nat
  BY DEF SessionTypeOK, OpType
<1>2. op' = [op EXCEPT ![x] = next]
  BY DEF Goto
<1>3. op' \in [Device -> OpType]
  BY <1>1, <1>2
<1>4. ASSUME NEW y \in Device
      PROVE  /\ op'[y].at \in WithSession => op'[y].id \in Issued'
             /\ op'[y].token < nextToken'
  <2>1. CASE y = x
    BY <1>1, <1>2, <2>1
  <2>2. CASE y # x
    <3>1. op'[y] = op[y]
      BY <1>1, <1>2, <2>2
    <3>2. op[y].token \in Nat /\ op[y].token < nextToken /\ (op[y].at \in WithSession => op[y].id \in Issued)
      BY <1>1 DEF SessionTypeOK, OpType
    <3>3. Issued \subseteq Issued'
      BY <1>1 DEF Issued
    <3> QED
      BY <1>1, <3>1, <3>2, <3>3
  <2> QED
    BY <2>1, <2>2
<1> QED
  BY <1>3, <1>4

\* What Redis loses is noted, and takes the count of wrong passwords along.
LEMMA LossFrame ==
    ASSUME RedisLosesKeys
    PROVE  /\ UNCHANGED <<sessions, nextToken, op, redisFaults, exchanged, contended, revoked, disturbed>>
           /\ keys' \subseteq keys /\ members' \subseteq members /\ lost \subseteq lost'
           /\ \A k \in keys \ keys' : k.id \in lost'
           /\ members \ members' \subseteq lost'
           /\ attempts' \in {attempts, NoAttempts} /\ lockout' \in {lockout, FALSE}
           /\ guesses' = 0 \/ UNCHANGED <<guesses, attempts, lockout>>
<1>1. /\ UNCHANGED <<sessions, nextToken, op, redisFaults, exchanged, contended, revoked, disturbed>>
      /\ lost' = lost \cup {k.id : k \in keys \ keys'} \cup (members \ members')
      /\ guesses' = IF attempts' = attempts /\ lockout' = lockout THEN guesses ELSE 0
  BY DEF RedisLosesKeys
<1>2. /\ keys' \subseteq keys /\ members' \subseteq members
      /\ attempts' \in {attempts, NoAttempts} /\ lockout' \in {lockout, FALSE}
  BY DEF RedisLosesKeys
<1> QED
  BY <1>1, <1>2

\* Every step of a request keeps the types.
LEMMA SessionTypeStep == SessionTypeOK /\ [SessionNext]_sessionVars => SessionTypeOK'
<1> SUFFICES ASSUME SessionTypeOK, [SessionNext]_sessionVars PROVE SessionTypeOK'
  OBVIOUS
<1>0. /\ nextToken \in Nat /\ op \in [Device -> OpType] /\ redisFaults \in Nat
      /\ attempts \in [count : Nat, expires : BOOLEAN]
  BY DEF SessionTypeOK, OpType
<1>a. NoAttempts \in [count : Nat, expires : BOOLEAN]
  BY DEF NoAttempts
<1>1. Resting \in OpType /\ Resting.token < nextToken /\ Resting.at \notin WithSession
  BY DEF Resting, OpType, Stage, WithSession, SessionTypeOK
<1>2. ASSUME NEW x \in Device, NEW next \in OpType, Goto(x, next),
             nextToken' = nextToken, next.at \in WithSession => next.id \in Issued,
             next.token < nextToken,
             redisFaults' \in Nat, guesses' \in Nat, lockout' \in BOOLEAN, disturbed' \in BOOLEAN,
             attempts' \in [count : Nat, expires : BOOLEAN],
             sessions' \subseteq sessions, members' \subseteq Issued,
             revoked' \subseteq Issued, exchanged' = exchanged
      PROVE  SessionTypeOK'
  <2>1. Issued' = Issued
    BY <1>2 DEF Issued
  <2>2. /\ op' \in [Device -> OpType]
        /\ \A y \in Device : op'[y].at \in WithSession => op'[y].id \in Issued'
        /\ \A y \in Device : op'[y].token < nextToken'
    BY <1>0, <1>2, <2>1, GotoType
  <2> QED
    BY <1>2, <2>1, <2>2 DEF SessionTypeOK, OpType
<1>3. ASSUME NEW x \in Device, NEW next \in OpType, RedisFails(x, next),
             next.at \in WithSession => next.id \in Issued, next.token < nextToken
      PROVE  SessionTypeOK'
  BY <1>0, <1>2, <1>3 DEF RedisFails, redis, SessionTypeOK
<1>4. ASSUME NEW at \in Stage, NEW token \in Nat, NEW id \in Nat, NEW ids \in SUBSET Nat
      PROVE  /\ Progress(at, token, id, ids) \in OpType /\ Progress(at, token, id, ids).at = at
             /\ Progress(at, token, id, ids).id = id /\ Progress(at, token, id, ids).token = token
  BY DEF Progress, OpType
<1>5. ASSUME NEW x \in Device, NEW next \in OpType, Begin(x, next),
             next.at \in WithSession => next.id \in Issued, next.token < nextToken,
             UNCHANGED <<redis, nextToken, redisFaults, exchanged, guesses>>,
             sessions' \subseteq sessions, revoked' \subseteq Issued
      PROVE  SessionTypeOK'
  <2>1. disturbed' \in BOOLEAN
    BY <1>5 DEF Begin
  <2>2. attempts' \in [count : Nat, expires : BOOLEAN] /\ lockout' \in BOOLEAN
    BY <1>5 DEF redis, SessionTypeOK
  <2> QED
    BY <1>2, <1>5, <2>1, <2>2 DEF Begin, redis, SessionTypeOK
<1>6. ASSUME NEW x \in Device, NEW at \in Stage PROVE [op[x] EXCEPT !.at = at] \in OpType
             /\ [op[x] EXCEPT !.at = at].token = op[x].token
             /\ [op[x] EXCEPT !.at = at].id = op[x].id /\ [op[x] EXCEPT !.at = at].at = at
  BY <1>0 DEF OpType
<1>7. \A x \in Device : /\ op[x].token \in Nat /\ op[x].token < nextToken /\ op[x].id \in Nat
                        /\ op[x].at \in WithSession => op[x].id \in Issued
  BY <1>0 DEF OpType, SessionTypeOK
<1>8. /\ Issued \subseteq Nat /\ SessionIds(sessions) \subseteq Issued
      /\ {"password", "failed", "refresh", "purge", "delete"} \subseteq Stage \ WithSession
      /\ WithSession \subseteq Stage
  BY DEF Issued, SessionIds, SessionTypeOK, Stage, WithSession
<1>9. ASSUME NEW x \in Device,
             \/ Login(x) \/ LoginUnchecked(x) \/ WrongPassword(x) \/ WrongPasswordUncounted(x)
             \/ RecordLoginAttempt(x) \/ RecordLoginAttemptFails(x)
      PROVE  SessionTypeOK'
  <2>1. CASE Login(x)
    BY <2>1, <1>0, <1>1, <1>4, <1>5, <1>8 DEF Login, SessionTypeOK
  <2>2. CASE LoginUnchecked(x)
    <3>1. RedisFails(x, Progress("password", 0, 0, {}))
      BY <2>2, Zenon DEF LoginUnchecked
    <3>2. /\ Progress("password", 0, 0, {}) \in OpType /\ Progress("password", 0, 0, {}).token < nextToken
          /\ Progress("password", 0, 0, {}).at \notin WithSession
      BY <1>4, <1>8 DEF SessionTypeOK
    <3> QED
      BY <3>1, <3>2, <1>3
  <2>3. CASE WrongPassword(x)
    <3>1. attempts.count + 1 \in Nat /\ [attempts EXCEPT !.count = @ + 1] \in [count : Nat, expires : BOOLEAN]
      BY <1>0
    <3>2. disturbed' \in BOOLEAN /\ lockout' \in BOOLEAN
      BY <2>3 DEF WrongPassword, SessionTypeOK
    <3> DEFINE next == Progress("failed", 0, attempts.count + 1, {})
    <3>3. next \in OpType /\ next.token < nextToken /\ next.at \notin WithSession
      <4>1. attempts.count + 1 \in Nat /\ 0 < nextToken
        BY <3>1 DEF SessionTypeOK
      <4>2. next \in OpType /\ next.token = 0 /\ next.at = "failed"
        BY <4>1, <1>4, <1>8
      <4> QED
        BY <4>1, <4>2, <1>8
    <3>4. /\ Goto(x, next) /\ attempts' = [attempts EXCEPT !.count = @ + 1] /\ guesses' = guesses + 1
          /\ UNCHANGED <<sessions, members, nextToken, redisFaults, exchanged, revoked>>
      BY <2>3 DEF WrongPassword
    <3> HIDE DEF next
    <3> QED
      BY <3>1, <3>2, <3>3, <3>4, <1>2 DEF SessionTypeOK
  <2>4. CASE WrongPasswordUncounted(x)
    <3>1. attempts' \in [count : Nat, expires : BOOLEAN] /\ lockout' \in BOOLEAN /\ disturbed' \in BOOLEAN
      BY <2>4 DEF WrongPasswordUncounted, redis, SessionTypeOK
    <3> QED
      BY <2>4, <3>1, <1>1, <1>2 DEF WrongPasswordUncounted, redis, SessionTypeOK
  <2>5. CASE RecordLoginAttempt(x)
    <3>1. attempts' \in [count : Nat, expires : BOOLEAN]
      <4> DEFINE e == attempts.expires \/ (op[x].id = 1 /\ attempts.count > 0)
      <4>1. attempts' = [attempts EXCEPT !.expires = e]
        BY <2>5 DEF RecordLoginAttempt
      <4>2. e \in BOOLEAN
        OBVIOUS
      <4> HIDE DEF e
      <4> QED
        BY <4>1, <4>2, <1>0
    <3>2. lockout' \in BOOLEAN /\ disturbed' \in BOOLEAN
      BY <2>5 DEF RecordLoginAttempt, sessionHistory, SessionTypeOK
    <3> QED
      BY <2>5, <3>1, <3>2, <1>1, <1>2 DEF RecordLoginAttempt, sessionHistory, SessionTypeOK
  <2>6. CASE RecordLoginAttemptFails(x)
    BY <2>6, <1>1, <1>3 DEF RecordLoginAttemptFails
  <2> QED
    BY <1>9, <2>1, <2>2, <2>3, <2>4, <2>5, <2>6
<1>10. ASSUME NEW x \in Device, RightPassword(x) \/ Rotate(x) PROVE SessionTypeOK'
  <2>1. nextToken' = nextToken + 1
    BY <1>10 DEF RightPassword, Rotate
  <2>2. Issued \subseteq Issued' /\ nextToken \in Issued'
    BY <2>1 DEF Issued, SessionTypeOK
  <2>3. PICK at \in {"set", "uncache"} : \E id \in Issued' : Goto(x, Progress(at, nextToken, id, {}))
    BY <1>7, <1>10, <2>2 DEF RightPassword, Rotate, In, WithSession
  <2>4. /\ op' \in [Device -> OpType]
        /\ \A y \in Device : op'[y].at \in WithSession => op'[y].id \in Issued'
        /\ \A y \in Device : op'[y].token < nextToken'
    <3>1. PICK id \in Issued' : Goto(x, Progress(at, nextToken, id, {}))
      BY <2>3
    <3>2. id \in Nat /\ at \in Stage /\ at \in WithSession
      BY DEF Issued, Stage, WithSession
    <3>3. /\ Progress(at, nextToken, id, {}) \in OpType
          /\ Progress(at, nextToken, id, {}).id = id /\ Progress(at, nextToken, id, {}).token = nextToken
      BY <1>0, <1>4, <3>2
    <3> QED
      BY <1>0, <2>1, <3>1, <3>3, GotoType
  <2>5. sessions' \subseteq [id : Issued', token : Issued']
    BY <1>10, <2>2 DEF RightPassword, Rotate, UpdateSessionToken, SessionTypeOK
  <2>6. /\ exchanged' \subseteq Issued' \X Issued' /\ revoked' \subseteq Issued' /\ members' \subseteq Issued'
    <3>1. Rotate(x) => op[x].token \in Issued'
      BY <2>2, <1>0, <1>7 DEF Issued
    <3>2. exchanged' = exchanged \/ (Rotate(x) /\ exchanged' = exchanged \cup {<<op[x].token, nextToken>>})
      BY <1>10 DEF RightPassword, Rotate
    <3>3. exchanged' \subseteq Issued' \X Issued'
      <4>1. exchanged \subseteq Issued \X Issued
        BY DEF SessionTypeOK
      <4>2. \A p \in Issued \X Issued : p \in Issued' \X Issued'
        BY <2>2
      <4>3. Rotate(x) => <<op[x].token, nextToken>> \in Issued' \X Issued'
        BY <2>2, <3>1
      <4> QED
        BY <4>1, <4>2, <4>3, <3>2
    <3>4. revoked' = revoked /\ members' = members
      BY <1>10 DEF RightPassword, Rotate, redis
    <3> QED
      BY <2>2, <3>3, <3>4 DEF SessionTypeOK
  <2>7. attempts' \in [count : Nat, expires : BOOLEAN] /\ lockout' \in BOOLEAN /\ disturbed' \in BOOLEAN
    <3>1. UNCHANGED <<lockout, disturbed>>
      BY <1>10 DEF RightPassword, Rotate, redis
    <3>2. attempts' = attempts \/ attempts' = NoAttempts
      BY <1>10 DEF RightPassword, Rotate, redis
    <3>3. lockout' \in BOOLEAN /\ disturbed' \in BOOLEAN
      BY <3>1 DEF SessionTypeOK
    <3>4. attempts' \in [count : Nat, expires : BOOLEAN]
      BY <3>2, <1>0, <1>a, Zenon
    <3> QED
      BY <3>3, <3>4, Zenon
  <2> QED
    BY <1>10, <2>1, <2>4, <2>5, <2>6, <2>7 DEF RightPassword, Rotate, SessionTypeOK, OpType
<1>11. ASSUME NEW x \in Device, SetKey(x) \/ AddMember(x) \/ CreateSessionFails(x) PROVE SessionTypeOK'
  <2>1. lockout' \in BOOLEAN /\ disturbed' \in BOOLEAN /\ "sadd" \in Stage
    BY <1>11 DEF SetKey, AddMember, CreateSessionFails, RedisFails, sessionHistory, redis, SessionTypeOK,
                 Stage, WithSession
  <2>2. CASE SetKey(x)
    BY <2>1, <2>2, <1>2, <1>6, <1>7 DEF SetKey, In, WithSession, sessionHistory, SessionTypeOK
  <2>3. CASE AddMember(x)
    BY <2>1, <2>3, <1>1, <1>2, <1>7 DEF AddMember, In, WithSession, sessionHistory, SessionTypeOK
  <2>4. CASE CreateSessionFails(x)
    BY <2>4, <1>1, <1>3 DEF CreateSessionFails
  <2> QED
    BY <1>11, <2>2, <2>3, <2>4
<1>12. ASSUME NEW x \in Device,
              \/ RefreshToken(x) \/ SessionFound(x) \/ SessionNotFound(x)
              \/ BlacklistToken(x) \/ BlacklistTokenFails(x)
       PROVE  SessionTypeOK'
  <2>1. {"refresh", "blacklist", "rotate"} \subseteq Stage
    BY DEF Stage, WithSession
  <2>2. CASE RefreshToken(x)
    <3>1. PICK t \in 1..(nextToken - 1) \ blacklist : Begin(x, Progress("refresh", t, 0, {}))
      BY <2>2 DEF RefreshToken
    <3>2. t \in Nat /\ t < nextToken
      BY <1>0, <3>1
    <3> QED
      BY <2>2, <3>1, <3>2, <2>1, <1>4, <1>5, <1>8 DEF RefreshToken, SessionTypeOK
  <2>3. lockout' \in BOOLEAN /\ disturbed' \in BOOLEAN
    BY <1>12, <2>2 DEF SessionFound, SessionNotFound, BlacklistToken, BlacklistTokenFails, RedisFails,
                 sessionHistory, redis, SessionTypeOK
  <2>4. CASE SessionFound(x)
    <3>1. PICK r \in sessions : Goto(x, Progress("blacklist", op[x].token, r.id, {}))
      BY <2>4 DEF SessionFound, GetSessionByToken
    <3>2. r.id \in Issued /\ r.id \in Nat
      BY <1>8 DEF SessionIds
    <3> QED
      BY <2>1, <2>3, <2>4, <3>1, <3>2, <1>2, <1>4, <1>7 DEF SessionFound, redis, SessionTypeOK
  <2>5. CASE SessionNotFound(x)
    BY <2>3, <2>5, <1>1, <1>2 DEF SessionNotFound, redis, sessionHistory, SessionTypeOK
  <2>6. CASE BlacklistToken(x)
    BY <2>1, <2>3, <2>6, <1>2, <1>6, <1>7 DEF BlacklistToken, In, WithSession, sessionHistory, SessionTypeOK
  <2>7. CASE BlacklistTokenFails(x)
    BY <2>1, <2>7, <1>3, <1>6, <1>7, ZenonT(60) DEF BlacklistTokenFails, In, WithSession
  <2> QED
    BY <1>12, <2>2, <2>4, <2>5, <2>6, <2>7
<1>13. ASSUME NEW x \in Device, DeleteSession(x) \/ DeleteSessionFails(x) PROVE SessionTypeOK'
  <2> DEFINE next == IF In(x, "uncache") THEN [op[x] EXCEPT !.at = "set"] ELSE Resting
  <2>1. /\ next \in OpType /\ next.token < nextToken
        /\ next.at \in WithSession => next.id \in Issued
    BY <1>1, <1>6, <1>7, <1>8 DEF In, WithSession
  <2>2. DeleteSession(x) => /\ Goto(x, next) /\ members' \subseteq members
                            /\ UNCHANGED <<sessions, attempts, lockout, nextToken, redisFaults, sessionHistory>>
    BY DEF DeleteSession
  <2>3. DeleteSessionFails(x) => RedisFails(x, next)
    BY DEF DeleteSessionFails
  <2> HIDE DEF next
  <2>4. ASSUME DeleteSession(x) PROVE lockout' \in BOOLEAN /\ disturbed' \in BOOLEAN
    BY <2>2, <2>4 DEF sessionHistory, SessionTypeOK
  <2> QED
    BY <1>13, <2>1, <2>2, <2>3, <2>4, <1>2, <1>3 DEF sessionHistory, SessionTypeOK
<1>14. ASSUME NEW x \in Device, RevokeSession(x) \/ RevokeAllSessions(x) PROVE SessionTypeOK'
  <2>1. CASE RevokeSession(x)
    <3>1. PICK i \in SessionIds(sessions) \cup members :
            /\ Begin(x, Progress("forget", 0, i, {})) /\ revoked' = revoked \cup {i}
            /\ sessions' = {s \in sessions : s.id # i}
      BY <2>1 DEF RevokeSession, SessionIds
    <3>2. i \in Issued /\ i \in Nat /\ "forget" \in Stage
      BY <1>8 DEF SessionTypeOK, WithSession
    <3>3. UNCHANGED <<redis, nextToken, redisFaults, exchanged, guesses>>
      BY <2>1 DEF RevokeSession
    <3>4. /\ Progress("forget", 0, i, {}) \in OpType /\ Progress("forget", 0, i, {}).token < nextToken
          /\ Progress("forget", 0, i, {}).id = i
      BY <3>2, <1>4 DEF SessionTypeOK
    <3>5. sessions' \subseteq sessions /\ revoked' \subseteq Issued
      BY <3>1, <3>2 DEF SessionTypeOK
    <3> QED
      BY <3>1, <3>2, <3>3, <3>4, <3>5, <1>5
  <2>2. CASE RevokeAllSessions(x)
    <3>1. revoked' \subseteq Issued
      BY <2>2, <1>8 DEF RevokeAllSessions, SessionIds, SessionTypeOK
    <3> QED
      BY <2>2, <3>1, <1>0, <1>1, <1>4, <1>5, <1>8 DEF RevokeAllSessions, SessionTypeOK
  <2> QED
    BY <1>14, <2>1, <2>2
<1>15. ASSUME NEW x \in Device, ReadMembers(x) \/ DeleteAllUserSessions(x) \/ DeleteAllFails(x)
       PROVE  SessionTypeOK'
  <2>1. members \in SUBSET Nat
    BY <1>8 DEF SessionTypeOK
  <2>2. lockout' \in BOOLEAN /\ disturbed' \in BOOLEAN
    BY <1>15 DEF ReadMembers, DeleteAllUserSessions, DeleteAllFails, RedisFails, sessionHistory, redis,
                 SessionTypeOK
  <2>3. CASE ReadMembers(x)
    <3> DEFINE next == IF members = {} THEN Resting ELSE Progress("delete", 0, 0, members)
    <3>1. next \in OpType /\ next.token < nextToken /\ next.at \notin WithSession
      BY <2>1, <1>1, <1>4, <1>8 DEF SessionTypeOK
    <3>2. Goto(x, next)
      BY <2>3 DEF ReadMembers
    <3> HIDE DEF next
    <3> QED
      BY <2>2, <2>3, <3>1, <3>2, <1>2 DEF ReadMembers, redis, sessionHistory, SessionTypeOK
  <2>4. CASE DeleteAllUserSessions(x)
    BY <2>2, <2>4, <1>1, <1>2 DEF DeleteAllUserSessions, sessionHistory, SessionTypeOK
  <2>5. CASE DeleteAllFails(x)
    BY <2>5, <1>1, <1>3 DEF DeleteAllFails
  <2> QED
    BY <1>15, <2>3, <2>4, <2>5
<1>16. CASE WindowEnds \/ LockoutEnds \/ SessionExpires \/ UNCHANGED sessionVars
  <2>1. /\ nextToken' = nextToken /\ op' = op /\ redisFaults' = redisFaults /\ guesses' \in Nat
        /\ members' = members /\ revoked' = revoked /\ exchanged' = exchanged /\ sessions' \subseteq sessions
    BY <1>16 DEF WindowEnds, LockoutEnds, SessionExpires, sessionVars, sessionHistory, redis, SessionTypeOK
  <2>2. attempts' \in [count : Nat, expires : BOOLEAN] /\ lockout' \in BOOLEAN /\ disturbed' \in BOOLEAN
    <3>1. attempts' = attempts \/ attempts' = NoAttempts
      BY <1>16 DEF WindowEnds, LockoutEnds, SessionExpires, sessionVars, redis
    <3>2. lockout' = lockout \/ lockout' = FALSE
      BY <1>16 DEF WindowEnds, LockoutEnds, SessionExpires, sessionVars, redis
    <3>3. disturbed' = disturbed
      BY <1>16 DEF WindowEnds, LockoutEnds, SessionExpires, sessionVars, sessionHistory
    <3>4. lockout' \in BOOLEAN /\ disturbed' \in BOOLEAN
      BY <3>2, <3>3 DEF SessionTypeOK
    <3>5. attempts' \in [count : Nat, expires : BOOLEAN]
      BY <3>1, <1>0, <1>a, Zenon
    <3> QED
      BY <3>4, <3>5, Zenon
  <2>3. Issued' = Issued
    BY <2>1 DEF Issued
  <2> QED
    BY <2>1, <2>2, <2>3 DEF SessionTypeOK
<1>17. CASE RedisLosesKeys
  <2>1. /\ UNCHANGED <<sessions, nextToken, op, redisFaults, exchanged, revoked, disturbed>>
        /\ members' \subseteq members /\ guesses' \in {guesses, 0}
        /\ attempts' \in {attempts, NoAttempts} /\ lockout' \in {lockout, FALSE}
    BY <1>17, LossFrame
  <2>2. attempts' \in [count : Nat, expires : BOOLEAN]
    BY <2>1, <1>0, <1>a, Zenon
  <2>3. lockout' \in BOOLEAN /\ Issued' = Issued
    BY <2>1 DEF SessionTypeOK, Issued
  <2> QED
    BY <2>1, <2>2, <2>3 DEF SessionTypeOK
<1> QED
  BY <1>9, <1>10, <1>11, <1>12, <1>13, <1>14, <1>15, <1>16, <1>17 DEF SessionNext

\* A new server has no sessions.
LEMMA SessionInitInv == SessionInit => RefreshInv
<1> SUFFICES ASSUME SessionInit PROVE RefreshInv
  OBVIOUS
<1>1. /\ nextToken = 1 /\ sessions = {} /\ members = {} /\ exchanged = {} /\ revoked = {}
      /\ op = [x \in Device |-> Resting] /\ redisFaults = 0 /\ guesses = 0
      /\ attempts = NoAttempts
  BY DEF SessionInit
<1>2. lockout \in BOOLEAN /\ disturbed \in BOOLEAN
  BY DEF SessionInit
<1>3. \A x \in Device : op[x] = Resting
  BY <1>1
<1>4. Resting \in OpType /\ Resting.token = 0 /\ Resting.at = "resting"
  BY DEF Resting, OpType, Stage
<1>5. SessionTypeOK
  <2>1. op \in [Device -> OpType]
    BY <1>1, <1>4
  <2>2. \A x \in Device : op[x].at \notin WithSession /\ op[x].token < 1
    BY <1>3, <1>4 DEF WithSession
  <2>3. attempts \in [count : Nat, expires : BOOLEAN]
    BY <1>1 DEF NoAttempts
  <2> QED
    BY <1>1, <1>2, <2>1, <2>2, <2>3 DEF SessionTypeOK, OpType
<1>6. SessionsDistinct /\ Rotation /\ RefreshUsedOnce
  BY <1>1, <1>3, <1>4 DEF SessionsDistinct, Rotation, RefreshUsedOnce, Holds
<1> QED
  BY <1>5, <1>6 DEF RefreshInv

\* A step that finds no session, adds none and exchanges nothing.
LEMMA RefreshFrame ==
    ASSUME RefreshInv, sessions' \subseteq sessions, UNCHANGED exchanged,
           contended \subseteq contended', \A s \in sessions' : s.id \notin revoked',
           \A y \in Device, t \in Nat : Holds(y, t)' => Holds(y, t) /\ op'[y].id = op[y].id
    PROVE  SessionsDistinct' /\ Rotation' /\ RefreshUsedOnce'
<1>1. /\ \A p \in exchanged : p[1] \in Nat /\ p[1] < nextToken
      /\ \A s \in sessions : s.token \in Nat
  BY DEF RefreshInv, SessionTypeOK, Issued
<1>2. SessionsDistinct' /\ RefreshUsedOnce'
  BY DEF RefreshInv, SessionsDistinct, RefreshUsedOnce
<1>3. \A p \in exchanged, x \in Device : Holds(x, p[1])' => p[1] \in contended'
  BY <1>1 DEF RefreshInv, Rotation
<1>4. \A x, y \in Device, t \in Nat : x # y /\ Holds(x, t)' /\ Holds(y, t)' => t \in contended'
  BY DEF RefreshInv, Rotation
<1>5. \A x \in Device, s \in sessions' : Holds(x, s.token)' => s.id = op'[x].id
  BY <1>1 DEF RefreshInv, Rotation
<1>6. \A p \in exchanged', s \in sessions' : s.token # p[1]
  BY DEF RefreshInv, Rotation
<1> QED
  BY <1>2, <1>3, <1>4, <1>5, <1>6 DEF Rotation, Holds

\* Every step keeps the tokens apart: a refresh finds only a token that was not
\* exchanged, and rotates it away from its session.
LEMMA RefreshStep == RefreshInv /\ [SessionNext]_sessionVars => RefreshInv'
<1> SUFFICES ASSUME RefreshInv, [SessionNext]_sessionVars PROVE RefreshInv'
  OBVIOUS
<1>0. SessionTypeOK /\ SessionTypeOK' /\ SessionsDistinct /\ Rotation /\ RefreshUsedOnce
  BY SessionTypeStep DEF RefreshInv
<1>1. SUFFICES SessionsDistinct' /\ Rotation' /\ RefreshUsedOnce'
  BY <1>0 DEF RefreshInv
<1>2. op \in [Device -> OpType] /\ op' \in [Device -> OpType] /\ nextToken \in Nat
  BY <1>0 DEF SessionTypeOK, OpType
<1>3. ASSUME NEW x \in Device, NEW next, Goto(x, next),
             \/ next.at \notin {"blacklist", "rotate"}
             \/ next = [op[x] EXCEPT !.at = "rotate"] /\ In(x, "blacklist")
      PROVE  \A y \in Device, t \in Nat : Holds(y, t)' => Holds(y, t) /\ op'[y].id = op[y].id
  <2>1. op' = [op EXCEPT ![x] = next]
    BY <1>3 DEF Goto
  <2>2. ASSUME NEW y \in Device, NEW t \in Nat, Holds(y, t)' PROVE Holds(y, t) /\ op'[y].id = op[y].id
    <3>1. CASE y # x
      BY <1>2, <2>1, <2>2, <3>1 DEF Holds
    <3>2. CASE y = x
      <4>1. op'[x] = next /\ op[x] \in OpType
        BY <1>2, <2>1
      <4>2. next = [op[x] EXCEPT !.at = "rotate"] /\ In(x, "blacklist")
        BY <1>3, <2>2, <3>2, <4>1 DEF Holds
      <4>3. next.token = op[x].token /\ next.id = op[x].id
        BY <4>1, <4>2 DEF OpType
      <4> QED
        BY <2>2, <3>2, <4>1, <4>2, <4>3 DEF Holds, In
    <3> QED
      BY <3>1, <3>2
  <2> QED
    BY <2>2
<1>4. Resting.at \notin {"blacklist", "rotate"}
  BY DEF Resting
<1>p. \A at, token, id, ids : Progress(at, token, id, ids).at = at
  BY DEF Progress
<1>5. ASSUME NEW x \in Device,
             \/ Login(x) \/ LoginUnchecked(x) \/ WrongPassword(x) \/ WrongPasswordUncounted(x)
             \/ RecordLoginAttempt(x) \/ RecordLoginAttemptFails(x)
             \/ SetKey(x) \/ AddMember(x) \/ CreateSessionFails(x)
             \/ RefreshToken(x) \/ SessionNotFound(x) \/ BlacklistToken(x) \/ BlacklistTokenFails(x)
             \/ DeleteSession(x) \/ DeleteSessionFails(x)
             \/ ReadMembers(x) \/ DeleteAllUserSessions(x) \/ DeleteAllFails(x)
      PROVE  SessionsDistinct' /\ Rotation' /\ RefreshUsedOnce'
  <2>1. UNCHANGED <<sessions, exchanged, contended, revoked>>
    BY <1>5 DEF Login, LoginUnchecked, WrongPassword, WrongPasswordUncounted, RecordLoginAttempt,
                RecordLoginAttemptFails, SetKey, AddMember, CreateSessionFails, RefreshToken,
                SessionNotFound, BlacklistToken, BlacklistTokenFails, DeleteSession, DeleteSessionFails,
                ReadMembers, DeleteAllUserSessions, DeleteAllFails, RedisFails, sessionHistory
  <2>2. \A at \in Stage : [op[x] EXCEPT !.at = at].at = at
    BY <1>2 DEF OpType
  <2>3. {"set", "sadd", "rotate"} \subseteq Stage
    BY DEF Stage, WithSession
  <2>4. PICK next : /\ Goto(x, next)
                    /\ \/ next.at \notin {"blacklist", "rotate"}
                       \/ next = [op[x] EXCEPT !.at = "rotate"] /\ In(x, "blacklist")
    <3>1. CASE \/ Login(x) \/ LoginUnchecked(x) \/ WrongPassword(x) \/ RefreshToken(x)
      <4>1. \E at, token, id, ids : at \in {"password", "failed", "refresh"} /\ Goto(x, Progress(at, token, id, ids))
        BY <3>1 DEF Login, LoginUnchecked, WrongPassword, RefreshToken, Begin, RedisFails
      <4> QED
        BY <4>1, <1>p
    <3>2. CASE \/ WrongPasswordUncounted(x) \/ RecordLoginAttempt(x) \/ RecordLoginAttemptFails(x)
               \/ AddMember(x) \/ CreateSessionFails(x) \/ SessionNotFound(x)
               \/ DeleteAllUserSessions(x) \/ DeleteAllFails(x)
      BY <3>2, <1>4 DEF WrongPasswordUncounted, RecordLoginAttempt, RecordLoginAttemptFails, AddMember,
                        CreateSessionFails, SessionNotFound, DeleteAllUserSessions, DeleteAllFails, RedisFails
    <3>3. CASE SetKey(x) \/ DeleteSession(x) \/ DeleteSessionFails(x)
      BY <3>3, <1>4, <2>2, <2>3 DEF SetKey, DeleteSession, DeleteSessionFails, RedisFails
    <3>4. CASE BlacklistToken(x) \/ BlacklistTokenFails(x)
      BY <3>4 DEF BlacklistToken, BlacklistTokenFails, RedisFails
    <3>5. CASE ReadMembers(x)
      BY <3>5, <1>4, <1>p DEF ReadMembers
    <3> QED
      BY <1>5, <3>1, <3>2, <3>3, <3>4, <3>5
  <2>5. \A y \in Device, t \in Nat : Holds(y, t)' => Holds(y, t) /\ op'[y].id = op[y].id
    BY <2>4, <1>3
  <2> QED
    BY <2>1, <2>5, <1>0, RefreshFrame DEF RefreshUsedOnce
<1>6. ASSUME NEW x \in Device, RevokeSession(x) \/ RevokeAllSessions(x)
      PROVE  SessionsDistinct' /\ Rotation' /\ RefreshUsedOnce'
  <2>1. UNCHANGED <<exchanged, contended>> /\ sessions' \subseteq sessions
    BY <1>6 DEF RevokeSession, RevokeAllSessions
  <2>2. \A s \in sessions' : s.id \notin revoked'
    BY <1>0, <1>6 DEF RevokeSession, RevokeAllSessions, RefreshUsedOnce
  <2>3. PICK next : Goto(x, next) /\ next.at \notin {"blacklist", "rotate"}
    <3>1. \E at, token, id, ids : at \in {"forget", "purge"} /\ Goto(x, Progress(at, token, id, ids))
      BY <1>6 DEF RevokeSession, RevokeAllSessions, Begin
    <3> QED
      BY <3>1, <1>p
  <2>4. \A y \in Device, t \in Nat : Holds(y, t)' => Holds(y, t) /\ op'[y].id = op[y].id
    BY <2>3, <1>3
  <2> QED
    BY <2>1, <2>2, <2>4, RefreshFrame
<1>7. CASE WindowEnds \/ LockoutEnds \/ SessionExpires \/ RedisLosesKeys \/ UNCHANGED sessionVars
  <2>1. UNCHANGED <<exchanged, contended, op, revoked>> /\ sessions' \subseteq sessions
    BY <1>7, LossFrame DEF WindowEnds, LockoutEnds, SessionExpires, sessionVars, sessionHistory
  <2>2. \A s \in sessions' : s.id \notin revoked'
    BY <1>0, <2>1 DEF RefreshUsedOnce
  <2>3. \A y \in Device, t \in Nat : Holds(y, t)' => Holds(y, t) /\ op'[y].id = op[y].id
    BY <2>1 DEF Holds
  <2> QED
    BY <2>1, <2>2, <2>3, RefreshFrame
<1>8. \A s \in sessions : /\ s.id \in Nat /\ s.id < nextToken /\ s.token \in Nat /\ s.token < nextToken
                          /\ s = [id |-> s.id, token |-> s.token]
  BY <1>0 DEF SessionTypeOK, Issued
<1>9. /\ \A p \in exchanged : p[1] \in Nat /\ p[1] < nextToken
      /\ \A i \in revoked : i < nextToken
  BY <1>0 DEF SessionTypeOK, Issued
<1>10. \A x \in Device : op[x].token \in Nat /\ op[x].token < nextToken
  BY <1>0 DEF SessionTypeOK
<1>11. ASSUME NEW x \in Device, SessionFound(x) PROVE SessionsDistinct' /\ Rotation' /\ RefreshUsedOnce'
  <2> DEFINE t == op[x].token
  <2>1. PICK s \in sessions : s.token = t /\ Goto(x, Progress("blacklist", t, s.id, {}))
    BY <1>11 DEF SessionFound, GetSessionByToken
  <2>2. /\ UNCHANGED <<sessions, exchanged, revoked>> /\ contended \subseteq contended'
        /\ \A y \in Device : y # x /\ Holds(y, t) => t \in contended'
    BY <1>11 DEF SessionFound, Holds
  <2>3. /\ op'[x].at = "blacklist" /\ op'[x].token = t /\ op'[x].id = s.id
        /\ \A y \in Device : y # x => op'[y] = op[y]
    BY <1>2, <2>1 DEF Goto, Progress
  <2>4. \A p \in exchanged : p[1] # t
    BY <2>1, <1>0 DEF Rotation
  <2> HIDE DEF t
  <2>5. \A y \in Device, u \in Nat : Holds(y, u)' => (y = x /\ u = t) \/ (y # x /\ Holds(y, u))
    BY <2>3 DEF Holds
  <2>6. \A p \in exchanged, y \in Device : Holds(y, p[1])' => p[1] \in contended'
    BY <2>2, <2>4, <2>5, <1>0, <1>9 DEF Rotation
  <2>7. \A y, z \in Device, u \in Nat : y # z /\ Holds(y, u)' /\ Holds(z, u)' => u \in contended'
    BY <2>2, <2>5, <1>0 DEF Rotation
  <2>8. \A y \in Device, r \in sessions : Holds(y, r.token)' => r.id = op'[y].id
    <3> SUFFICES ASSUME NEW y \in Device, NEW r \in sessions, Holds(y, r.token)'
                 PROVE  r.id = op'[y].id
      OBVIOUS
    <3>1. CASE y = x
      <4>1. r.token = s.token
        BY <3>1, <2>1, <2>5, <1>8
      <4>2. r = s
        BY <4>1, <1>0 DEF SessionsDistinct
      <4> QED
        BY <3>1, <4>2, <2>3
    <3>2. CASE y # x
      BY <3>2, <2>3, <2>5, <1>0, <1>8 DEF Rotation
    <3> QED
      BY <3>1, <3>2
  <2>9. SessionsDistinct' /\ RefreshUsedOnce'
    BY <2>2, <1>0 DEF SessionsDistinct, RefreshUsedOnce
  <2>10. \A p \in exchanged', r \in sessions' : r.token # p[1]
    BY <2>2, <1>0 DEF Rotation
  <2> QED
    BY <2>2, <2>6, <2>7, <2>8, <2>9, <2>10 DEF Rotation, Holds
<1>12. ASSUME NEW x \in Device, RightPassword(x) PROVE SessionsDistinct' /\ Rotation' /\ RefreshUsedOnce'
  <2>1. /\ sessions' = sessions \cup {[id |-> nextToken, token |-> nextToken]}
        /\ UNCHANGED <<exchanged, contended, revoked>>
        /\ Goto(x, Progress("set", nextToken, nextToken, {}))
    BY <1>12 DEF RightPassword
  <2>2. \A y \in Device, t \in Nat : Holds(y, t)' => Holds(y, t) /\ op'[y].id = op[y].id
    BY <2>1, <1>3, <1>p
  <2>3. \A r \in sessions' : r \in sessions \/ (r.id = nextToken /\ r.token = nextToken)
    BY <2>1
  <2>4. SessionsDistinct'
    BY <2>1, <1>0, <1>2, <1>8 DEF SessionsDistinct
  <2>5. RefreshUsedOnce'
    BY <2>1, <2>3, <1>0, <1>2, <1>9 DEF RefreshUsedOnce
  <2>6. \A p \in exchanged', r \in sessions' : r.token # p[1]
    BY <2>1, <2>3, <1>0, <1>2, <1>9 DEF Rotation
  <2>7. /\ \A p \in exchanged, y \in Device : Holds(y, p[1])' => p[1] \in contended'
        /\ \A y, z \in Device, u \in Nat : y # z /\ Holds(y, u)' /\ Holds(z, u)' => u \in contended'
    BY <2>1, <2>2, <1>0, <1>9 DEF Rotation
  <2>8. \A y \in Device, r \in sessions' : Holds(y, r.token)' => r.id = op'[y].id
    <3> SUFFICES ASSUME NEW y \in Device, NEW r \in sessions', Holds(y, r.token)'
                 PROVE  r.id = op'[y].id
      OBVIOUS
    <3>1. r.token \in Nat
      BY <2>3, <1>2, <1>8
    <3>2. Holds(y, r.token) /\ op'[y].id = op[y].id
      BY <2>2, <3>1
    <3>3. r \in sessions
      BY <2>3, <3>2, <1>2, <1>10 DEF Holds
    <3> QED
      BY <3>2, <3>3, <1>0 DEF Rotation
  <2> QED
    BY <2>1, <2>4, <2>5, <2>6, <2>7, <2>8 DEF Rotation, Holds
<1>13. ASSUME NEW x \in Device, Rotate(x) PROVE SessionsDistinct' /\ Rotation' /\ RefreshUsedOnce'
  <2> DEFINE t == op[x].token
             i == op[x].id
  <2>1. /\ sessions' = UpdateSessionToken(i, nextToken) /\ In(x, "rotate")
        /\ exchanged' = exchanged \cup {<<t, nextToken>>}
        /\ UNCHANGED <<contended, revoked>>
        /\ Goto(x, Progress("uncache", nextToken, i, {}))
    BY <1>13 DEF Rotate
  <2>2. /\ Holds(x, t) /\ t \in Nat /\ t < nextToken
    BY <2>1, <1>10 DEF Holds, In
  <2>3. \A y \in Device, u \in Nat : Holds(y, u)' => Holds(y, u) /\ op'[y].id = op[y].id
    BY <2>1, <1>3, <1>p
  <2>4. \A y \in Device, u \in Nat : Holds(y, u)' => y # x
    BY <2>1, <1>2, <1>p DEF Goto, Holds
  <2> HIDE DEF t, i
  <2>5. \A r \in sessions' : \E s \in sessions :
            r.id = s.id /\ IF s.id = i THEN r = [id |-> i, token |-> nextToken] ELSE r = s
    BY <2>1, <1>8 DEF UpdateSessionToken
  <2>6. \A r \in sessions' : (r.token = nextToken /\ r.id = i) \/ (r \in sessions /\ r.id # i)
    BY <2>5
  <2>7. SessionsDistinct'
    <3> SUFFICES ASSUME NEW r \in sessions', NEW q \in sessions', r.id = q.id \/ r.token = q.token
                 PROVE  r = q
      BY DEF SessionsDistinct
    <3>1. CASE r.id = i /\ q.id = i
      BY <3>1, <2>5
    <3>2. CASE r.id # i /\ q.id # i
      BY <3>2, <2>6, <1>0 DEF SessionsDistinct
    <3>3. CASE (r.id = i /\ q.id # i) \/ (r.id # i /\ q.id = i)
      BY <3>3, <2>6, <1>2, <1>8
    <3> QED
      BY <3>1, <3>2, <3>3
  <2>8. \A s \in sessions' : s.id \notin revoked'
    BY <2>1, <2>5, <1>0 DEF RefreshUsedOnce
  <2>9. \A p \in exchanged' : p \in exchanged \/ p = <<t, nextToken>>
    BY <2>1
  <2>10. \A p \in exchanged : p[1] = t => t \in contended
    BY <2>2, <1>0 DEF Rotation
  <2>11. RefreshUsedOnce'
    BY <2>1, <2>8, <2>9, <2>10, <1>0 DEF RefreshUsedOnce
  <2>12. \A p \in exchanged', r \in sessions' : r.token # p[1]
    <3> SUFFICES ASSUME NEW p \in exchanged', NEW r \in sessions' PROVE r.token # p[1]
      OBVIOUS
    <3>1. p[1] < nextToken /\ p[1] \in Nat
      BY <2>2, <2>9, <1>9
    <3>2. CASE r.token = nextToken
      BY <3>1, <3>2, <1>2
    <3>3. CASE r \in sessions /\ r.id # i
      <4>1. r.token # t
        BY <3>3, <2>2, <1>0 DEF Rotation, i
      <4> QED
        BY <3>3, <4>1, <2>9, <1>0 DEF Rotation
    <3> QED
      BY <3>2, <3>3, <2>6
  <2>13. \A p \in exchanged', y \in Device : Holds(y, p[1])' => p[1] \in contended'
    <3> SUFFICES ASSUME NEW p \in exchanged', NEW y \in Device, Holds(y, p[1])'
                 PROVE  p[1] \in contended'
      OBVIOUS
    <3>1. p[1] \in Nat
      BY <2>2, <2>9, <1>9
    <3>2. Holds(y, p[1]) /\ y # x
      BY <3>1, <2>3, <2>4
    <3> QED
      BY <3>1, <3>2, <2>1, <2>2, <2>9, <1>0 DEF Rotation
  <2>14. \A y, z \in Device, u \in Nat : y # z /\ Holds(y, u)' /\ Holds(z, u)' => u \in contended'
    BY <2>1, <2>3, <1>0 DEF Rotation
  <2>15. \A y \in Device, r \in sessions' : Holds(y, r.token)' => r.id = op'[y].id
    <3> SUFFICES ASSUME NEW y \in Device, NEW r \in sessions', Holds(y, r.token)'
                 PROVE  r.id = op'[y].id
      OBVIOUS
    <3>1. r.token \in Nat
      BY <2>6, <1>2, <1>8
    <3>2. Holds(y, r.token) /\ op'[y].id = op[y].id
      BY <2>3, <3>1
    <3>3. r \in sessions
      BY <2>6, <3>2, <1>2, <1>10 DEF Holds
    <3> QED
      BY <3>2, <3>3, <1>0 DEF Rotation
  <2> QED
    BY <2>7, <2>11, <2>12, <2>13, <2>14, <2>15 DEF Rotation, Holds
<1> QED
  BY <1>5, <1>6, <1>7, <1>11, <1>12, <1>13 DEF SessionNext

\* The invariant holds in every reachable state of a user's sessions.
LEMMA RefreshInvHolds == SessionSpec => []RefreshInv
BY SessionInitInv, RefreshStep, PTL DEF SessionSpec

\* RefreshToken: a refresh token is exchanged twice only by two refreshes that
\* both found the session first, and a revoked session stays away, for any
\* number of devices, tokens and failures of Redis.
THEOREM RefreshTokensUsedOnce == SessionSpec => []RefreshUsedOnce
<1>1. RefreshInv => RefreshUsedOnce
  BY DEF RefreshInv
<1> QED
  BY <1>1, RefreshInvHolds, PTL
-----------------------------------------------------------------------------
(* The list of sessions. *)

Without(S, i) == {s \in S : s.id # i}

Quiet == {"resting", "password", "failed", "refresh"}

\* The copies a list is made of, for a set of ids.
Listed(ids) == {k \in keys : k.id \in ids}
\* The sessions of S are copied, but for those whose copy was lost.
Copied(S, ids) == \A s \in S : s.id \in lost \/ (s \in keys /\ s.id \in ids)

\* While x alone has a request under way, the copy in Redis differs from the
\* stored sessions by what that request is about and by what was lost.
CopyAt(x) ==
    /\ op[x].at \in Quiet \cup {"blacklist", "rotate"} =>
          Listed(members) \subseteq sessions /\ Copied(sessions, members)
    /\ op[x].at \in {"blacklist", "rotate"} => op[x].id \in SessionIds(sessions)
    /\ op[x].at \in {"uncache", "set"} =>
          /\ [id |-> op[x].id, token |-> op[x].token] \in sessions
          /\ Without(Listed(members), op[x].id) \subseteq sessions
          /\ Copied(Without(sessions, op[x].id), members)
    /\ op[x].at = "sadd" =>
          /\ Listed(members \cup {op[x].id}) \subseteq sessions
          /\ Copied(sessions, members \cup {op[x].id})
    /\ op[x].at = "forget" =>
          /\ Without(Listed(members), op[x].id) \subseteq sessions /\ Copied(sessions, members)
          /\ op[x].id \notin SessionIds(sessions)
    /\ op[x].at \in {"purge", "delete"} => sessions = {}

Alone(x) == \A y \in Device \ {x} : op[y] = Resting

\* Undisturbed, one request is under way at a time.
ListInv ==
    ~disturbed =>
       /\ \A x \in Device : op[x] # Resting => Alone(x)
       /\ \A x \in Device : Alone(x) => CopyAt(x)

\* It is enough to look at the device whose request moves on.
LEMMA ListFrame ==
    ASSUME op \in [Device -> OpType], NEW x \in Device, NEW next, Goto(x, next), Alone(x), CopyAt(x)'
    PROVE  ListInv'
<1>1. op' = [op EXCEPT ![x] = next]
  BY DEF Goto
<1>2. \A y \in Device : y # x => op'[y] = Resting
  BY <1>1 DEF Alone
<1>3. \A y \in Device : op'[y] # Resting => Alone(y)'
  BY <1>2 DEF Alone
<1>4. ASSUME NEW y \in Device, Alone(y)' PROVE CopyAt(y)'
  <2>1. CASE y = x
    BY <2>1
  <2>2. CASE y # x
    <3>1. op'[x] = Resting /\ op'[y] = Resting
      BY <1>2, <1>4, <2>2 DEF Alone
    <3> QED
      BY <3>1 DEF CopyAt
  <2> QED
    BY <2>1, <2>2
<1> QED
  BY <1>3, <1>4 DEF ListInv

\* Every step of an undisturbed request keeps the copy as its stage says.
LEMMA ListStep == RefreshInv /\ ListInv /\ [SessionNext]_sessionVars => ListInv'
<1> SUFFICES ASSUME RefreshInv, ListInv, [SessionNext]_sessionVars PROVE ListInv'
  OBVIOUS
<1> SUFFICES ASSUME ~disturbed' PROVE ListInv'
  BY DEF ListInv
<1>0. op \in [Device -> OpType] /\ SessionsDistinct
  BY DEF RefreshInv, SessionTypeOK, OpType
<1>1. ASSUME NEW x \in Device, op[x] # Resting, ~disturbed PROVE Alone(x) /\ CopyAt(x)
  BY <1>1 DEF ListInv
<1>2. ASSUME NEW x \in Device, NEW next, Begin(x, next)
      PROVE  Goto(x, next) /\ Alone(x) /\ op[x] = Resting /\ CopyAt(x)
  <2>1. Goto(x, next) /\ op[x] = Resting
    BY <1>2 DEF Begin
  <2>2. ~disturbed /\ ~(\E y \in Device \ {x} : op[y] # Resting)
    BY <1>2 DEF Begin
  <2> QED
    BY <2>1, <2>2 DEF Alone, ListInv
<1>3. \A x \in Device : \A next : ~RedisFails(x, next)
  BY DEF RedisFails
<1>4. Resting.at = "resting"
  BY DEF Resting
<1>5. \A at, token, id, ids : /\ Progress(at, token, id, ids).at = at /\ Progress(at, token, id, ids).id = id
                              /\ Progress(at, token, id, ids).token = token
                              /\ Progress(at, token, id, ids).ids = ids
  BY DEF Progress
<1>6. \A x \in Device : \A next : Goto(x, next) => op'[x] = next
  BY <1>0 DEF Goto
<1>7. ASSUME NEW x \in Device, NEW at \in Stage
      PROVE  /\ [op[x] EXCEPT !.at = at].at = at /\ [op[x] EXCEPT !.at = at].id = op[x].id
             /\ [op[x] EXCEPT !.at = at].token = op[x].token
  BY <1>0 DEF OpType
<1>8. {"set", "sadd", "rotate"} \subseteq Stage
  BY DEF Stage, WithSession
<1>9. ASSUME NEW x \in Device, NEW next, Goto(x, next), Alone(x), CopyAt(x),
             op[x].at \in Quiet, next.at \in Quiet, UNCHANGED <<keys, sessions, members, lost>>
      PROVE  ListInv'
  <2>1. op'[x].at \in Quiet
    BY <1>6, <1>9
  <2>2. CopyAt(x)'
    BY <2>1, <1>9 DEF CopyAt, Quiet, Listed, Copied
  <2> QED
    BY <2>2, <1>0, <1>9, ListFrame
<1>10. ASSUME NEW x \in Device, Login(x) \/ RefreshToken(x) PROVE ListInv'
  <2>1. PICK at, t, id, ids : at \in {"password", "refresh"} /\ Begin(x, Progress(at, t, id, ids))
    BY <1>10 DEF Login, RefreshToken
  <2>2. UNCHANGED <<keys, sessions, members, lost>>
    BY <1>10 DEF Login, RefreshToken, redis, losing
  <2>3. Progress(at, t, id, ids).at \in Quiet /\ op[x].at \in Quiet
    BY <2>1, <1>2, <1>4, <1>5 DEF Quiet
  <2> QED
    BY <2>1, <2>2, <2>3, <1>2, <1>9
<1>11. ASSUME NEW x \in Device, WrongPassword(x) \/ RecordLoginAttempt(x) \/ SessionNotFound(x)
       PROVE  ListInv'
  <2>1. op[x].at \in {"password", "failed", "refresh"} /\ UNCHANGED <<keys, sessions, members, lost, disturbed>>
    BY <1>11 DEF WrongPassword, RecordLoginAttempt, SessionNotFound, In, redis, sessionHistory, losing
  <2>2. Alone(x) /\ CopyAt(x)
    BY <2>1, <1>1, <1>4
  <2>3. PICK next : Goto(x, next) /\ next.at \in {"failed", "resting"}
    BY <1>11, <1>4, <1>5 DEF WrongPassword, RecordLoginAttempt, SessionNotFound
  <2>4. op[x].at \in Quiet /\ next.at \in Quiet
    BY <2>1, <2>3 DEF Quiet
  <2> QED
    BY <2>1, <2>2, <2>3, <2>4, <1>9
<1>12. \A x \in Device : op[x].at # "resting" => op[x] # Resting
  BY <1>4
<1>13. ASSUME NEW x \in Device, SessionFound(x) \/ BlacklistToken(x) PROVE ListInv'
  <2>1. op[x].at \in {"refresh", "blacklist"} /\ UNCHANGED <<keys, sessions, members, lost, disturbed>>
    BY <1>13 DEF SessionFound, BlacklistToken, In, redis, sessionHistory, losing
  <2>2. Alone(x) /\ CopyAt(x)
    BY <2>1, <1>1, <1>12
  <2>3. PICK next : Goto(x, next) /\ next.at \in {"blacklist", "rotate"} /\ next.id \in SessionIds(sessions)
    <3>1. CASE SessionFound(x)
      BY <3>1, <1>5 DEF SessionFound, GetSessionByToken, SessionIds
    <3>2. CASE BlacklistToken(x)
      <4> DEFINE next == [op[x] EXCEPT !.at = "rotate"]
      <4>1. op[x].at = "blacklist" /\ Goto(x, next)
        BY <3>2 DEF BlacklistToken, In
      <4>2. "rotate" \in Stage
        BY <1>8
      <4>3. next.at = "rotate" /\ next.id = op[x].id
        BY <4>2, <1>7
      <4>4. op[x].id \in SessionIds(sessions)
        BY <4>1, <2>2 DEF CopyAt
      <4> HIDE DEF next
      <4> QED
        BY <4>1, <4>3, <4>4
    <3> QED
      BY <1>13, <3>1, <3>2
  <2>4. CopyAt(x)'
    BY <2>1, <2>2, <2>3, <1>6 DEF CopyAt, Quiet, Listed, Copied
  <2> QED
    BY <2>2, <2>3, <2>4, <1>0, ListFrame
<1>14. ASSUME NEW x \in Device, RightPassword(x) PROVE ListInv'
  <2>0. PICK n : n = nextToken
    OBVIOUS
  <2>1. /\ op[x].at = "password" /\ UNCHANGED <<keys, members, lost, disturbed>>
        /\ sessions' = sessions \cup {[id |-> n, token |-> n]}
        /\ Goto(x, Progress("set", n, n, {}))
    BY <2>0, <1>14 DEF RightPassword, In, losing
  <2>2. Alone(x) /\ CopyAt(x)
    BY <2>1, <1>1, <1>12
  <2>3. op'[x].at = "set" /\ op'[x].id = n /\ op'[x].token = n
    BY <2>1, <1>5, <1>6
  <2>4. Listed(members) \subseteq sessions /\ Copied(sessions, members)
    BY <2>1, <2>2 DEF CopyAt, Quiet
  <2>5. /\ [id |-> n, token |-> n] \in sessions' /\ Without(Listed(members), n)' \subseteq sessions'
        /\ Copied(Without(sessions, n), members)'
    BY <2>1, <2>4 DEF Without, Listed, Copied
  <2>6. CopyAt(x)'
    BY <2>3, <2>5 DEF CopyAt, Quiet, Listed, Copied, Without
  <2> QED
    BY <2>1, <2>2, <2>6, <1>0, ListFrame
<1>15. ASSUME NEW x \in Device, Rotate(x) PROVE ListInv'
  <2>0. PICK n, i : n = nextToken /\ i = op[x].id
    OBVIOUS
  <2>1. /\ op[x].at = "rotate" /\ UNCHANGED <<keys, members, lost, disturbed>>
        /\ sessions' = UpdateSessionToken(i, n) /\ Goto(x, Progress("uncache", n, i, {}))
    BY <2>0, <1>15 DEF Rotate, In, redis, losing
  <2>2. Alone(x) /\ CopyAt(x)
    BY <2>1, <1>1, <1>12
  <2>3. op'[x].at = "uncache" /\ op'[x].id = i /\ op'[x].token = n
    BY <2>1, <1>5, <1>6
  <2>4. Listed(members) \subseteq sessions /\ Copied(sessions, members) /\ i \in SessionIds(sessions)
    BY <2>0, <2>1, <2>2 DEF CopyAt
  <2>5. \A s \in sessions : s = [id |-> s.id, token |-> s.token]
    BY DEF RefreshInv, SessionTypeOK
  <2>6. \A s \in sessions : s.id = i => [s EXCEPT !.token = n] = [id |-> i, token |-> n]
    BY <2>5
  <2>7. sessions' = {IF s.id = i THEN [id |-> i, token |-> n] ELSE s : s \in sessions}
    BY <2>1, <2>6 DEF UpdateSessionToken
  <2>8. /\ [id |-> i, token |-> n] \in sessions' /\ Without(Listed(members), i)' \subseteq sessions'
        /\ Copied(Without(sessions, i), members)'
    BY <2>1, <2>4, <2>7 DEF Without, SessionIds, Listed, Copied
  <2>9. CopyAt(x)'
    BY <2>3, <2>8 DEF CopyAt, Quiet, Listed, Copied, Without
  <2> QED
    BY <2>1, <2>2, <2>9, <1>0, ListFrame
<1>16. ASSUME NEW x \in Device, SetKey(x) PROVE ListInv'
  <2>0. PICK i, t : i = op[x].id /\ t = op[x].token
    OBVIOUS
  <2>1. /\ op[x].at = "set" /\ UNCHANGED <<sessions, members, disturbed>>
        /\ keys' = {k \in keys : k.id # i} \cup {[id |-> i, token |-> t]} /\ lost' = lost \ {i}
        /\ Goto(x, [op[x] EXCEPT !.at = "sadd"])
    BY <2>0, <1>16 DEF SetKey, In, sessionHistory, losing
  <2>2. Alone(x) /\ CopyAt(x)
    BY <2>1, <1>1, <1>12
  <2>3. op'[x].at = "sadd" /\ op'[x].id = i
    <3>1. op'[x] = [op[x] EXCEPT !.at = "sadd"]
      BY <2>1, <1>6
    <3>2. "sadd" \in Stage
      BY <1>8
    <3> QED
      BY <2>0, <3>1, <3>2, <1>7
  <2>4. /\ [id |-> i, token |-> t] \in sessions /\ Without(Listed(members), i) \subseteq sessions
        /\ Copied(Without(sessions, i), members)
    BY <2>0, <2>1, <2>2 DEF CopyAt
  <2>5. \A s \in sessions : s.id = i => s = [id |-> i, token |-> t]
    BY <2>4, <1>0 DEF SessionsDistinct
  <2>6. Listed(members \cup {i})' \subseteq sessions' /\ Copied(sessions, members \cup {i})'
    BY <2>1, <2>4, <2>5 DEF Without, Listed, Copied
  <2>7. CopyAt(x)'
    BY <2>3, <2>6 DEF CopyAt, Quiet, Listed, Copied
  <2> QED
    BY <2>1, <2>2, <2>7, <1>0, ListFrame
<1>17. ASSUME NEW x \in Device, AddMember(x) PROVE ListInv'
  <2>1. /\ op[x].at = "sadd" /\ UNCHANGED <<sessions, keys, lost, disturbed>>
        /\ members' = members \cup {op[x].id} /\ Goto(x, Resting)
    BY <1>17 DEF AddMember, In, sessionHistory, losing
  <2>2. Alone(x) /\ CopyAt(x)
    BY <2>1, <1>1, <1>12
  <2>3. op'[x].at = "resting"
    BY <2>1, <1>4, <1>6
  <2>4. CopyAt(x)'
    BY <2>1, <2>2, <2>3 DEF CopyAt, Quiet, Listed, Copied
  <2> QED
    BY <2>1, <2>2, <2>4, <1>0, ListFrame
<1>18. ASSUME NEW x \in Device, DeleteSession(x) PROVE ListInv'
  <2>0. PICK i, t : i = op[x].id /\ t = op[x].token
    OBVIOUS
  <2>1. /\ op[x].at \in {"uncache", "forget"} /\ UNCHANGED <<sessions, lost, disturbed>>
        /\ keys' = Without(keys, i) /\ members' = members \ {i}
    BY <2>0, <1>18 DEF DeleteSession, sessionHistory, losing, Without
  <2>2. Alone(x) /\ CopyAt(x)
    BY <2>1, <1>1, <1>12
  <2>3. CASE op[x].at = "uncache"
    <3>1. Goto(x, [op[x] EXCEPT !.at = "set"])
      BY <2>3, <1>18 DEF DeleteSession, In
    <3>2. op'[x].at = "set" /\ op'[x].id = i /\ op'[x].token = t
      <4>1. op'[x] = [op[x] EXCEPT !.at = "set"]
        BY <3>1, <1>6
      <4>2. "set" \in Stage
        BY <1>8
      <4> QED
        BY <2>0, <4>1, <4>2, <1>7
    <3>3. /\ [id |-> i, token |-> t] \in sessions /\ Without(Listed(members), i) \subseteq sessions
          /\ Copied(Without(sessions, i), members)
      BY <2>0, <2>2, <2>3 DEF CopyAt
    <3>4. Without(Listed(members), i)' \subseteq sessions' /\ Copied(Without(sessions, i), members)'
      BY <2>1, <3>3 DEF Without, Listed, Copied
    <3>5. CopyAt(x)'
      BY <2>1, <3>2, <3>3, <3>4 DEF CopyAt, Quiet, Listed, Copied, Without
    <3> QED
      BY <3>1, <3>5, <2>2, <1>0, ListFrame
  <2>4. CASE op[x].at = "forget"
    <3>1. Goto(x, Resting)
      BY <2>4, <1>18 DEF DeleteSession, In
    <3>2. op'[x].at = "resting"
      BY <3>1, <1>4, <1>6
    <3>3. /\ Without(Listed(members), i) \subseteq sessions /\ Copied(sessions, members)
          /\ i \notin SessionIds(sessions)
      BY <2>0, <2>2, <2>4 DEF CopyAt
    <3>4. Listed(members)' \subseteq sessions' /\ Copied(sessions, members)'
      BY <2>1, <3>3 DEF Without, SessionIds, Listed, Copied
    <3>5. CopyAt(x)'
      BY <3>2, <3>4 DEF CopyAt, Quiet
    <3> QED
      BY <3>1, <3>5, <2>2, <1>0, ListFrame
  <2> QED
    BY <2>1, <2>3, <2>4
<1>19. ASSUME NEW x \in Device, RevokeSession(x) PROVE ListInv'
  <2>1. PICK i : Begin(x, Progress("forget", 0, i, {})) /\ sessions' = Without(sessions, i)
    BY <1>19 DEF RevokeSession, Without
  <2>2. UNCHANGED <<keys, members, lost>>
    BY <1>19 DEF RevokeSession, redis, losing
  <2>3. Goto(x, Progress("forget", 0, i, {})) /\ Alone(x) /\ CopyAt(x) /\ op[x].at = "resting"
    BY <2>1, <1>2, <1>4
  <2>4. op'[x].at = "forget" /\ op'[x].id = i
    BY <2>3, <1>5, <1>6
  <2>5. Listed(members) \subseteq sessions /\ Copied(sessions, members)
    BY <2>3 DEF CopyAt, Quiet
  <2>6. /\ Without(Listed(members), i)' \subseteq sessions' /\ Copied(sessions, members)'
        /\ i \notin SessionIds(sessions')
    BY <2>1, <2>2, <2>5 DEF Without, SessionIds, Listed, Copied
  <2>7. CopyAt(x)'
    BY <2>4, <2>6 DEF CopyAt, Quiet, Listed, Copied, Without
  <2> QED
    BY <2>3, <2>7, <1>0, ListFrame
<1>20. ASSUME NEW x \in Device, RevokeAllSessions(x) PROVE ListInv'
  <2>1. Begin(x, Progress("purge", 0, 0, {})) /\ sessions' = {} /\ UNCHANGED <<keys, members, lost>>
    BY <1>20 DEF RevokeAllSessions, redis, losing
  <2>2. Goto(x, Progress("purge", 0, 0, {})) /\ Alone(x) /\ CopyAt(x) /\ op[x].at = "resting"
    BY <2>1, <1>2, <1>4
  <2>3. op'[x].at = "purge"
    BY <2>2, <1>5, <1>6
  <2>4. CopyAt(x)'
    BY <2>1, <2>2, <2>3 DEF CopyAt, Quiet
  <2> QED
    BY <2>2, <2>4, <1>0, ListFrame
<1>21. ASSUME NEW x \in Device, ReadMembers(x) PROVE ListInv'
  <2>1. op[x].at = "purge" /\ UNCHANGED <<keys, members, sessions, lost, disturbed>>
    BY <1>21 DEF ReadMembers, In, redis, sessionHistory, losing
  <2>2. Alone(x) /\ CopyAt(x)
    BY <2>1, <1>1, <1>12
  <2>3. sessions = {}
    BY <2>1, <2>2 DEF CopyAt
  <2>4. CASE members = {}
    <3>1. Goto(x, Resting)
      BY <2>4, <1>21 DEF ReadMembers
    <3>2. op'[x].at = "resting"
      BY <3>1, <1>4, <1>6
    <3>3. Listed(members)' = {} /\ Copied(sessions, members)'
      BY <2>1, <2>3, <2>4 DEF Listed, Copied
    <3>4. CopyAt(x)'
      BY <3>2, <3>3 DEF CopyAt, Quiet
    <3> QED
      BY <3>1, <3>4, <2>2, <1>0, ListFrame
  <2>5. CASE members # {}
    <3>1. Goto(x, Progress("delete", 0, 0, members))
      BY <2>5, <1>21 DEF ReadMembers
    <3>2. op'[x].at = "delete"
      BY <3>1, <1>5, <1>6
    <3>3. CopyAt(x)'
      BY <2>1, <2>3, <3>2 DEF CopyAt, Quiet
    <3> QED
      BY <3>1, <3>3, <2>2, <1>0, ListFrame
  <2> QED
    BY <2>4, <2>5
<1>22. ASSUME NEW x \in Device, DeleteAllUserSessions(x) PROVE ListInv'
  <2>1. /\ op[x].at = "delete" /\ UNCHANGED <<sessions, lost, disturbed>> /\ members' = {}
        /\ keys' = {k \in keys : k.id \notin op[x].ids} /\ Goto(x, Resting)
    BY <1>22 DEF DeleteAllUserSessions, In, sessionHistory, losing
  <2>2. Alone(x) /\ CopyAt(x)
    BY <2>1, <1>1, <1>12
  <2>3. sessions = {} /\ Listed(members)' = {} /\ Copied(sessions, members)'
    BY <2>1, <2>2 DEF CopyAt, Listed, Copied
  <2>4. op'[x].at = "resting"
    BY <2>1, <1>4, <1>6
  <2>5. CopyAt(x)'
    BY <2>1, <2>3, <2>4 DEF CopyAt, Quiet
  <2> QED
    BY <2>1, <2>2, <2>5, <1>0, ListFrame
<1>23. CASE SessionExpires
  <2>1. /\ \A x \in Device : op[x] = Resting
        /\ UNCHANGED <<op, members, lost, disturbed>>
    BY <1>23 DEF SessionExpires, sessionHistory, losing
  <2>2. PICK s \in sessions : sessions' = sessions \ {s} /\ keys' = Without(keys, s.id)
    BY <1>23 DEF SessionExpires, Without
  <2>3. ASSUME NEW x \in Device PROVE CopyAt(x)'
    <3>1. Listed(members) \subseteq sessions /\ Copied(sessions, members)
      BY <2>1, <1>4 DEF ListInv, Alone, CopyAt, Quiet
    <3>2. Listed(members)' \subseteq sessions' /\ Copied(sessions, members)'
      BY <3>1, <2>1, <2>2, <1>0 DEF SessionsDistinct, Without, Listed, Copied
    <3>3. op'[x].at = "resting"
      BY <2>1, <1>4
    <3> QED
      BY <3>2, <3>3 DEF CopyAt, Quiet
  <2> QED
    BY <2>1, <2>3 DEF ListInv
<1>24. CASE WindowEnds \/ LockoutEnds \/ UNCHANGED sessionVars
  <2>1. UNCHANGED <<op, keys, sessions, members, lost, disturbed>>
    BY <1>24 DEF WindowEnds, LockoutEnds, sessionVars, redis, sessionHistory, losing
  <2> QED
    BY <2>1 DEF ListInv, Alone, CopyAt, Listed, Copied
<1>25. ASSUME NEW x \in Device,
              \/ LoginUnchecked(x) \/ WrongPasswordUncounted(x) \/ RecordLoginAttemptFails(x)
              \/ CreateSessionFails(x) \/ BlacklistTokenFails(x) \/ DeleteSessionFails(x)
              \/ DeleteAllFails(x)
       PROVE  FALSE
  BY <1>25, <1>3 DEF LoginUnchecked, WrongPasswordUncounted, RecordLoginAttemptFails,
                     CreateSessionFails, BlacklistTokenFails, DeleteSessionFails, DeleteAllFails
<1>26. CASE RedisLosesKeys
  <2>1. /\ UNCHANGED <<op, sessions, disturbed>> /\ keys' \subseteq keys /\ members' \subseteq members
        /\ lost \subseteq lost' /\ (\A k \in keys \ keys' : k.id \in lost') /\ members \ members' \subseteq lost'
    BY <1>26, LossFrame
  <2>5. ASSUME NEW x \in Device, CopyAt(x) PROVE CopyAt(x)'
    <3>1. Listed(members)' \subseteq Listed(members)
      BY <2>1 DEF Listed
    <3>2. \A i : Listed(members \cup {i})' \subseteq Listed(members \cup {i})
      BY <2>1 DEF Listed
    <3>3. /\ Copied(sessions, members) => Copied(sessions, members)'
          /\ \A i : Copied(Without(sessions, i), members) => Copied(Without(sessions, i), members)'
          /\ \A i : Copied(sessions, members \cup {i}) => Copied(sessions, members \cup {i})'
      BY <2>1 DEF Copied, Without
    <3> QED
      BY <2>1, <2>5, <3>1, <3>2, <3>3 DEF CopyAt, Without
  <2> QED
    BY <2>1, <2>5 DEF ListInv, Alone
<1> QED
  BY <1>10, <1>11, <1>13, <1>14, <1>15, <1>16, <1>17, <1>18, <1>19, <1>20, <1>21, <1>22, <1>23,
     <1>24, <1>25, <1>26 DEF SessionNext

\* GetUserSessions: with no overlap and no failure the list a user is shown at
\* rest is made of stored sessions, and leaves out only those whose copy Redis
\* lost, whatever was done before and whenever it lost keys.
THEOREM SessionListTrue == SessionSpec => []SessionListTrueUnlessDisturbed
<1>1. SessionInit => ListInv
  BY DEF SessionInit, ListInv, CopyAt, Alone, Quiet, Resting, Listed, Copied
<1>2. ListInv => SessionListTrueUnlessDisturbed
  <2> SUFFICES ASSUME ListInv, ~disturbed, \A x \in Device : op[x] = Resting
               PROVE  /\ GetUserSessions \subseteq sessions
                      /\ \A s \in sessions \ GetUserSessions : s.id \in lost
    BY DEF SessionListTrueUnlessDisturbed
  <2>1. PICK x \in Device : TRUE
    BY SessionsAssumption
  <2>2. Alone(x) /\ op[x].at = "resting"
    BY DEF Alone, Resting
  <2>3. Listed(members) \subseteq sessions /\ Copied(sessions, members)
    BY <2>2 DEF ListInv, CopyAt, Quiet
  <2>4. GetUserSessions \in {Listed(members), sessions}
    BY DEF GetUserSessions, Listed
  <2> QED
    BY <2>3, <2>4 DEF Listed, Copied
<1> QED
  BY <1>1, <1>2, ListStep, RefreshInvHolds, PTL DEF SessionSpec
-----------------------------------------------------------------------------
(* The count of wrong passwords. *)

Guessing == {x \in Device : op[x].at = "password"}
\* Devices whose failed attempt is about to lock the account.
Locking == {x \in Device : op[x].at = "failed" /\ op[x].id >= MaxLoginAttempts}

\* Without the lock, guesses past the limit are still to be recorded; with it,
\* only those under way go on.
GuessInv ==
    /\ guesses <= attempts.count + redisFaults
    /\ ~lockout => guesses <= MaxLoginAttempts - 1 + Cardinality(Locking) + redisFaults
    /\ lockout => guesses + Cardinality(Guessing)
                    <= MaxLoginAttempts - 1 + Cardinality(Device) + redisFaults

\* One element more or less.
LEMMA CardinalityStep ==
    ASSUME NEW S, NEW T, NEW x, IsFiniteSet(S), IsFiniteSet(T), S \ {x} = T \ {x}
    PROVE  /\ Cardinality(S) \in Nat /\ Cardinality(T) \in Nat
           /\ x \in T \ S => Cardinality(T) = Cardinality(S) + 1
           /\ x \in S \ T => Cardinality(S) = Cardinality(T) + 1
           /\ (x \in S <=> x \in T) => Cardinality(T) = Cardinality(S)
<1>1. Cardinality(S) \in Nat /\ Cardinality(T) \in Nat
  BY FS_CardinalityType
<1>2. x \in T \ S => T = S \cup {x}
  OBVIOUS
<1>3. x \in S \ T => S = T \cup {x}
  OBVIOUS
<1>4. (x \in S <=> x \in T) => S = T
  OBVIOUS
<1> QED
  BY <1>1, <1>2, <1>3, <1>4, FS_AddElement

\* A request that moves on changes who is guessing and who is locking by itself.
LEMMA GuessFrame ==
    ASSUME op \in [Device -> OpType], NEW x \in Device, NEW next, Goto(x, next)
    PROVE  LET IsLocking(r) == r.at = "failed" /\ r.id >= MaxLoginAttempts IN
           /\ {Cardinality(Guessing), Cardinality(Locking)} \subseteq Nat
           /\ {Cardinality(Guessing)', Cardinality(Locking)'} \subseteq Nat
           /\ next.at = "password" /\ op[x].at # "password" =>
                 Cardinality(Guessing)' = Cardinality(Guessing) + 1
           /\ next.at # "password" /\ op[x].at = "password" =>
                 Cardinality(Guessing) = Cardinality(Guessing)' + 1
           /\ (next.at = "password" <=> op[x].at = "password") =>
                 Cardinality(Guessing)' = Cardinality(Guessing)
           /\ IsLocking(next) /\ ~IsLocking(op[x]) =>
                 Cardinality(Locking)' = Cardinality(Locking) + 1
           /\ ~IsLocking(next) /\ IsLocking(op[x]) =>
                 Cardinality(Locking) = Cardinality(Locking)' + 1
           /\ (IsLocking(next) <=> IsLocking(op[x])) =>
                 Cardinality(Locking)' = Cardinality(Locking)
<1> DEFINE IsLocking(r) == r.at = "failed" /\ r.id >= MaxLoginAttempts
<1>1. op' = [op EXCEPT ![x] = next]
  BY DEF Goto
<1>2. op'[x] = next /\ \A y \in Device : y # x => op'[y] = op[y]
  BY <1>1
<1>3. Guessing' \ {x} = Guessing \ {x} /\ Locking' \ {x} = Locking \ {x}
  BY <1>2 DEF Guessing, Locking
<1>4. /\ x \in Guessing <=> op[x].at = "password"
      /\ x \in Guessing' <=> next.at = "password"
      /\ x \in Locking <=> IsLocking(op[x])
      /\ x \in Locking' <=> IsLocking(next)
  BY <1>2 DEF Guessing, Locking
<1>5. IsFiniteSet(Guessing) /\ IsFiniteSet(Guessing') /\ IsFiniteSet(Locking) /\ IsFiniteSet(Locking')
  <2>1. /\ Guessing \subseteq Device /\ Guessing' \subseteq Device
        /\ Locking \subseteq Device /\ Locking' \subseteq Device
    BY DEF Guessing, Locking
  <2> QED
    BY <2>1, SessionsAssumption, FS_Subset
<1> HIDE DEF IsLocking
<1>6. /\ {Cardinality(Guessing), Cardinality(Guessing')} \subseteq Nat
      /\ next.at = "password" /\ op[x].at # "password" =>
            Cardinality(Guessing') = Cardinality(Guessing) + 1
      /\ next.at # "password" /\ op[x].at = "password" =>
            Cardinality(Guessing) = Cardinality(Guessing') + 1
      /\ (next.at = "password" <=> op[x].at = "password") =>
            Cardinality(Guessing') = Cardinality(Guessing)
  BY <1>3, <1>4, <1>5, CardinalityStep
<1>7. /\ {Cardinality(Locking), Cardinality(Locking')} \subseteq Nat
      /\ IsLocking(next) /\ ~IsLocking(op[x]) => Cardinality(Locking') = Cardinality(Locking) + 1
      /\ ~IsLocking(next) /\ IsLocking(op[x]) => Cardinality(Locking) = Cardinality(Locking') + 1
      /\ (IsLocking(next) <=> IsLocking(op[x])) => Cardinality(Locking') = Cardinality(Locking)
  BY <1>3, <1>4, <1>5, CardinalityStep
<1>8. Cardinality(Guessing)' = Cardinality(Guessing') /\ Cardinality(Locking)' = Cardinality(Locking')
  OBVIOUS
<1> QED
  BY <1>6, <1>7, <1>8 DEF IsLocking

\* Every step of a login keeps the two bounds.
LEMMA GuessStep == RefreshInv /\ GuessInv /\ [SessionNext]_sessionVars => GuessInv'
<1> SUFFICES ASSUME RefreshInv, GuessInv, [SessionNext]_sessionVars PROVE GuessInv'
  OBVIOUS
<1> DEFINE G == Cardinality(Guessing)
           L == Cardinality(Locking)
           D == Cardinality(Device)
           c == attempts.count
           M == MaxLoginAttempts
<1>0. /\ op \in [Device -> OpType] /\ redisFaults \in Nat /\ guesses \in Nat /\ c \in Nat
      /\ lockout \in BOOLEAN /\ M \in Nat \ {0} /\ attempts \in [count : Nat, expires : BOOLEAN]
  BY SessionsAssumption DEF RefreshInv, SessionTypeOK, OpType
<1>1. /\ guesses <= c + redisFaults
      /\ ~lockout => guesses <= M - 1 + L + redisFaults
      /\ lockout => guesses + G <= M - 1 + D + redisFaults
  BY DEF GuessInv
<1>2. /\ G \in Nat /\ L \in Nat /\ D \in Nat /\ G' \in Nat /\ L' \in Nat
      /\ G + L <= D /\ G' <= D
  <2>1. /\ Guessing \subseteq Device /\ Locking \subseteq Device /\ Guessing \cap Locking = {}
        /\ Guessing' \subseteq Device /\ Locking' \subseteq Device
    BY DEF Guessing, Locking
  <2>2. /\ IsFiniteSet(Device) /\ IsFiniteSet(Guessing) /\ IsFiniteSet(Locking)
        /\ IsFiniteSet(Guessing') /\ IsFiniteSet(Locking')
    BY <2>1, SessionsAssumption, FS_Subset
  <2>3. /\ G \in Nat /\ L \in Nat /\ D \in Nat
        /\ Cardinality(Guessing') \in Nat /\ Cardinality(Locking') \in Nat
    BY <2>2, FS_CardinalityType
  <2>4. Guessing \cup Locking \subseteq Device /\ Cardinality({}) = 0
    BY <2>1, FS_EmptySet
  <2>5. Cardinality(Guessing \cup Locking) <= D /\ Cardinality(Guessing') <= D
    BY <2>1, <2>2, <2>4, FS_Subset
  <2>6. Cardinality(Guessing \cup Locking) = G + L - Cardinality(Guessing \cap Locking)
    BY <2>2, FS_Union
  <2>7. G + L <= D
    BY <2>1, <2>3, <2>4, <2>5, <2>6
  <2> QED
    BY <2>3, <2>5, <2>7
<1>3. ASSUME guesses' = 0, redisFaults' \in Nat, attempts'.count \in Nat PROVE GuessInv'
  <2>1. /\ 0 <= attempts'.count + redisFaults' /\ 0 <= M - 1 + L' + redisFaults'
        /\ 0 + G' <= M - 1 + D + redisFaults'
    BY <1>0, <1>2, <1>3
  <2> QED
    BY <1>3, <2>1 DEF GuessInv
<1>4. ASSUME NEW x \in Device, NEW next, Goto(x, next),
             next.at \notin {"password", "failed"}, op[x].at \notin {"password", "failed"},
             UNCHANGED <<attempts, lockout, guesses>>, redisFaults' \in {redisFaults, redisFaults + 1}
      PROVE  GuessInv'
  <2>1. G' = G /\ L' = L
    BY <1>0, <1>4, GuessFrame
  <2>2. /\ guesses <= c + redisFaults' /\ (~lockout => guesses <= M - 1 + L + redisFaults')
        /\ lockout => guesses + G <= M - 1 + D + redisFaults'
    BY <1>0, <1>1, <1>2, <1>4
  <2> QED
    BY <1>4, <2>1, <2>2 DEF GuessInv
<1>5. Resting.at = "resting" /\ \A at, token, id, ids : /\ Progress(at, token, id, ids).at = at
                                                       /\ Progress(at, token, id, ids).id = id
  BY DEF Resting, Progress
<1>6. \A x \in Device, at \in Stage : [op[x] EXCEPT !.at = at].at = at
  BY <1>0 DEF OpType
<1>7. ASSUME NEW x \in Device, Login(x) PROVE GuessInv'
  <2>1. /\ ~lockout /\ op[x] = Resting /\ Goto(x, Progress("password", 0, 0, {}))
        /\ UNCHANGED <<attempts, lockout, guesses, redisFaults>>
    BY <1>7 DEF Login, Begin, redis
  <2>2. L' = L
    BY <2>1, <1>0, <1>5, GuessFrame
  <2> QED
    BY <2>1, <2>2, <1>1 DEF GuessInv
<1>8. ASSUME NEW x \in Device, LoginUnchecked(x) PROVE GuessInv'
  <2>1. /\ lockout /\ op[x] = Resting /\ Goto(x, Progress("password", 0, 0, {}))
        /\ UNCHANGED <<attempts, lockout, guesses>> /\ redisFaults' = redisFaults + 1
    BY <1>8 DEF LoginUnchecked, RedisFails, redis
  <2>2. G' = G + 1
    BY <2>1, <1>0, <1>5, GuessFrame
  <2>3. guesses <= c + redisFaults' /\ guesses + G' <= M - 1 + D + redisFaults'
    BY <2>1, <2>2, <1>0, <1>1, <1>2
  <2> QED
    BY <2>1, <2>3 DEF GuessInv
<1>9. ASSUME NEW x \in Device, WrongPassword(x) PROVE GuessInv'
  <2> DEFINE next == Progress("failed", 0, c + 1, {})
  <2>1. /\ op[x].at = "password" /\ Goto(x, next) /\ guesses' = guesses + 1
        /\ UNCHANGED <<lockout, redisFaults>> /\ attempts' = [attempts EXCEPT !.count = @ + 1]
    BY <1>9 DEF WrongPassword, In
  <2>2. next.at = "failed" /\ next.id = c + 1
    BY <1>5
  <2> HIDE DEF next
  <2>3. attempts'.count = c + 1
    BY <2>1, <1>0
  <2>4. G = G' + 1
    BY <2>1, <2>2, <1>0, GuessFrame
  <2>5. (c + 1 >= M => L' = L + 1) /\ (~(c + 1 >= M) => L' = L)
    BY <2>1, <2>2, <1>0, GuessFrame
  <2>6. /\ guesses + 1 <= c + 1 + redisFaults
        /\ ~lockout => guesses + 1 <= M - 1 + L' + redisFaults
        /\ lockout => guesses + 1 + G' <= M - 1 + D + redisFaults
    BY <2>4, <2>5, <1>0, <1>1, <1>2
  <2> QED
    BY <2>1, <2>3, <2>6 DEF GuessInv
<1>10. ASSUME NEW x \in Device, WrongPasswordUncounted(x) PROVE GuessInv'
  <2>1. /\ op[x].at = "password" /\ Goto(x, Resting) /\ guesses' = guesses + 1
        /\ UNCHANGED <<lockout, attempts>> /\ redisFaults' = redisFaults + 1
    BY <1>10 DEF WrongPasswordUncounted, In, redis
  <2>2. G = G' + 1 /\ L' = L
    BY <2>1, <1>0, <1>5, GuessFrame
  <2>3. /\ guesses + 1 <= c + redisFaults'
        /\ ~lockout => guesses + 1 <= M - 1 + L' + redisFaults'
        /\ lockout => guesses + 1 + G' <= M - 1 + D + redisFaults'
    BY <2>1, <2>2, <1>0, <1>1, <1>2
  <2> QED
    BY <2>1, <2>3 DEF GuessInv
<1>11. ASSUME NEW x \in Device, RecordLoginAttempt(x) PROVE GuessInv'
  <2> DEFINE e == attempts.expires \/ (op[x].id = 1 /\ attempts.count > 0)
  <2>1. /\ op[x].at = "failed" /\ Goto(x, Resting) /\ UNCHANGED <<guesses, redisFaults>>
        /\ lockout' = (lockout \/ op[x].id >= M) /\ attempts' = [attempts EXCEPT !.expires = e]
    BY <1>11 DEF RecordLoginAttempt, In, sessionHistory, LockedAt
  <2> HIDE DEF e
  <2>2. attempts'.count = c
    BY <2>1, <1>0
  <2>3. G' = G /\ (~(op[x].id >= M) => L' = L)
    BY <2>1, <1>0, <1>5, GuessFrame
  <2>4. lockout' => guesses + G' <= M - 1 + D + redisFaults
    <3>1. CASE lockout
      BY <3>1, <2>3, <1>1
    <3>2. CASE ~lockout
      BY <3>2, <2>3, <1>0, <1>1, <1>2
    <3> QED
      BY <3>1, <3>2
  <2>5. ~lockout' => guesses <= M - 1 + L' + redisFaults
    BY <2>1, <2>3, <1>1
  <2> QED
    BY <2>1, <2>2, <2>4, <2>5, <1>1 DEF GuessInv
<1>12. ASSUME NEW x \in Device, RecordLoginAttemptFails(x) PROVE GuessInv'
  <2>1. /\ op[x].at = "failed" /\ Goto(x, Resting) /\ UNCHANGED <<guesses, lockout, attempts>>
        /\ redisFaults' = redisFaults + 1
    BY <1>12 DEF RecordLoginAttemptFails, In, RedisFails, redis
  <2>2. G' = G /\ (L' = L \/ L = L' + 1)
    BY <2>1, <1>0, <1>5, GuessFrame
  <2>3. /\ guesses <= c + redisFaults'
        /\ ~lockout => guesses <= M - 1 + L' + redisFaults'
        /\ lockout => guesses + G' <= M - 1 + D + redisFaults'
    BY <2>1, <2>2, <1>0, <1>1, <1>2
  <2> QED
    BY <2>1, <2>3 DEF GuessInv
<1>13. ASSUME NEW x \in Device, RightPassword(x) PROVE GuessInv'
  BY <1>0, <1>3, <1>13 DEF RightPassword, NoAttempts
<1>14. CASE WindowEnds \/ LockoutEnds
  BY <1>0, <1>3, <1>14 DEF WindowEnds, LockoutEnds, NoAttempts
<1>15. ASSUME NEW x \in Device,
              \/ SetKey(x) \/ AddMember(x) \/ CreateSessionFails(x) \/ RefreshToken(x)
              \/ SessionFound(x) \/ SessionNotFound(x) \/ BlacklistToken(x)
              \/ BlacklistTokenFails(x) \/ Rotate(x) \/ DeleteSession(x)
              \/ DeleteSessionFails(x) \/ RevokeSession(x) \/ RevokeAllSessions(x)
              \/ ReadMembers(x) \/ DeleteAllUserSessions(x) \/ DeleteAllFails(x)
       PROVE  GuessInv'
  <2>1. op[x].at \notin {"password", "failed"}
    BY <1>15, <1>5 DEF SetKey, AddMember, CreateSessionFails, RefreshToken, SessionFound,
      SessionNotFound, BlacklistToken, BlacklistTokenFails, Rotate, DeleteSession,
      DeleteSessionFails, RevokeSession, RevokeAllSessions, ReadMembers, DeleteAllUserSessions,
      DeleteAllFails, In, Begin
  <2>2. UNCHANGED <<attempts, lockout, guesses>> /\ redisFaults' \in {redisFaults, redisFaults + 1}
    BY <1>15 DEF SetKey, AddMember, CreateSessionFails, RefreshToken, SessionFound,
      SessionNotFound, BlacklistToken, BlacklistTokenFails, Rotate, DeleteSession,
      DeleteSessionFails, RevokeSession, RevokeAllSessions, ReadMembers, DeleteAllUserSessions,
      DeleteAllFails, Begin, RedisFails, redis, sessionHistory
  <2>3. {"sadd", "rotate", "set"} \subseteq Stage
    BY DEF Stage, WithSession
  <2>4. PICK next : Goto(x, next) /\ next.at \notin {"password", "failed"}
    <3>1. \A at \in {"sadd", "rotate", "set"} : [op[x] EXCEPT !.at = at].at = at
      BY <1>6, <2>3
    <3>2. CASE AddMember(x) \/ CreateSessionFails(x) \/ SessionNotFound(x)
               \/ DeleteAllUserSessions(x) \/ DeleteAllFails(x)
      BY <3>2, <1>5 DEF AddMember, CreateSessionFails, SessionNotFound, DeleteAllUserSessions,
        DeleteAllFails, RedisFails
    <3>3. CASE RefreshToken(x) \/ SessionFound(x) \/ Rotate(x) \/ RevokeSession(x) \/ RevokeAllSessions(x)
      BY <3>3, <1>5 DEF RefreshToken, SessionFound, Rotate, RevokeSession, RevokeAllSessions, Begin
    <3>4. CASE SetKey(x) \/ BlacklistToken(x) \/ BlacklistTokenFails(x)
      BY <3>4, <3>1 DEF SetKey, BlacklistToken, BlacklistTokenFails, RedisFails
    <3>5. CASE DeleteSession(x) \/ DeleteSessionFails(x)
      <4>1. Goto(x, [op[x] EXCEPT !.at = "set"]) \/ Goto(x, Resting)
        BY <3>5 DEF DeleteSession, DeleteSessionFails, RedisFails
      <4> QED
        BY <4>1, <3>1, <1>5
    <3>6. CASE ReadMembers(x)
      <4>1. Goto(x, Resting) \/ Goto(x, Progress("delete", 0, 0, members))
        BY <3>6 DEF ReadMembers
      <4> QED
        BY <4>1, <1>5
    <3> QED
      BY <1>15, <3>2, <3>3, <3>4, <3>5, <3>6
  <2> QED
    BY <2>1, <2>2, <2>4, <1>4
<1>16. CASE SessionExpires \/ UNCHANGED sessionVars
  <2>1. UNCHANGED <<op, guesses, redisFaults, attempts, lockout>>
    BY <1>16 DEF SessionExpires, sessionVars, redis, sessionHistory
  <2> QED
    BY <2>1 DEF GuessInv, Guessing, Locking
<1>17. CASE RedisLosesKeys
  <2>1. /\ op' = op /\ redisFaults' = redisFaults /\ attempts' \in {attempts, NoAttempts}
        /\ guesses' = 0 \/ UNCHANGED <<guesses, attempts, lockout>>
    BY <1>17, LossFrame
  <2>2. attempts'.count \in Nat
    BY <2>1, <1>0 DEF NoAttempts
  <2>3. CASE guesses' = 0
    BY <2>1, <2>2, <2>3, <1>0, <1>3
  <2>4. CASE UNCHANGED <<guesses, attempts, lockout>>
    BY <2>1, <2>4 DEF GuessInv, Guessing, Locking
  <2> QED
    BY <2>1, <2>3, <2>4
<1> QED
  BY <1>7, <1>8, <1>9, <1>10, <1>11, <1>12, <1>13, <1>14, <1>15, <1>16, <1>17 DEF SessionNext

\* IsLoginLocked, RecordLoginAttempt: in one window the account takes at most
\* the configured number of wrong passwords, one more for every other device
\* whose attempt was under way and one for every command to Redis that failed.
THEOREM WrongPasswordsBounded == SessionSpec => []GuessesBounded
<1>1. SessionInit => GuessInv
  <2> SUFFICES ASSUME SessionInit PROVE GuessInv
    OBVIOUS
  <2>1. guesses = 0 /\ attempts.count = 0 /\ redisFaults = 0 /\ ~lockout
    BY DEF SessionInit, NoAttempts
  <2>2. Locking \subseteq Device
    BY DEF Locking
  <2>3. Cardinality(Locking) \in Nat
    BY <2>2, SessionsAssumption, FS_Subset, FS_CardinalityType
  <2> QED
    BY <2>1, <2>3, SessionsAssumption DEF GuessInv
<1>2. RefreshInv /\ GuessInv => GuessesBounded
  <2> SUFFICES ASSUME RefreshInv, GuessInv PROVE GuessesBounded
    OBVIOUS
  <2>1. Locking \subseteq Device /\ Guessing \subseteq Device
    BY DEF Locking, Guessing
  <2>2. /\ Cardinality(Locking) \in Nat /\ Cardinality(Guessing) \in Nat /\ Cardinality(Device) \in Nat
        /\ Cardinality(Locking) <= Cardinality(Device)
    BY <2>1, SessionsAssumption, FS_Subset, FS_CardinalityType
  <2>3. guesses \in Nat /\ redisFaults \in Nat /\ lockout \in BOOLEAN /\ MaxLoginAttempts \in Nat
    BY SessionsAssumption DEF RefreshInv, SessionTypeOK
  <2> QED
    BY <2>2, <2>3 DEF GuessInv, GuessesBounded
<1> QED
  BY <1>1, <1>2, GuessStep, RefreshInvHolds, PTL DEF SessionSpec
-----------------------------------------------------------------------------
(* The account. *)

Address == Email \cup {"none"}
RequestStage ==
    {"done", "store", "mail", "unregister", "verify", "activate", "discard", "profile",
     "unverify", "rollback", "password", "consume"}
\* What a request is for; a change of address keeps the old one there.
Purpose == Address \cup {"registering", "resending", "verifying", "resetting", "changing"}
UserRow == [id : Nat, email : Address, verified : BOOLEAN, password : Nat]
Editing == {"profile", "unverify", "rollback"}
RequestType ==
    {r \in [at : RequestStage, email : Address, was : Purpose, token : Nat] :
        r.at \in Editing => r.was \in Address}

\* A request that has read a reset token and not yet deleted it.
ResetStage == {"password", "consume"}
IsReset(r) == r.at \in ResetStage /\ r.was = "resetting"
Resetting(c, t) == IsReset(request[c]) /\ request[c].token = t

\* Types; reset tokens and the passwords they set are numbers that were issued.
AccountTypeOK ==
    /\ user \in UserRow
    /\ codes \in [Email -> [code : Nat, user : Nat]]
    /\ request \in [Browser -> RequestType]
    /\ issued \in [users : Nat, codes : Nat, passwords : Nat]
    /\ resets \subseteq 1..issued.passwords
    /\ \A p \in resetUses : p[1] \in 1..issued.passwords
    /\ \A c \in Browser : IsReset(request[c]) => request[c].token \in 1..issued.passwords
    /\ \A c \in Browser : request[c].at = "consume" => request[c].was = "resetting"

\* A token that is used and not shared is gone, or the request that used it is
\* the only one that has it and is about to delete it.
ResetInv ==
    /\ \A c, d \in Browser, t \in Nat : c # d /\ Resetting(c, t) /\ Resetting(d, t) => t \in shared
    /\ \A p \in resetUses : p[1] \notin shared =>
          /\ \A c \in Browser : Resetting(c, p[1]) => request[c].at = "consume"
          /\ p[1] \in resets => \E c \in Browser : Resetting(c, p[1])
    /\ ResetTokenUsedOnce

AccountInv == AccountTypeOK /\ VerifiedIsCurrentUnlessOutdated /\ ResetInv

\* A request may go on to any record of its type; only the one that goes on
\* can begin or end having a reset token.
LEMMA AccountGoto ==
    ASSUME AccountTypeOK, NEW c \in Browser, NEW next \in RequestType, To(c, next),
           next.at = "consume" => next.was = "resetting",
           IsReset(next) => next.token \in 1..issued'.passwords,
           issued.passwords <= issued'.passwords, issued'.passwords \in Nat
    PROVE  /\ request' \in [Browser -> RequestType] /\ request'[c] = next
           /\ \A d \in Browser : d # c => request'[d] = request[d]
           /\ \A d \in Browser : IsReset(request'[d]) => request'[d].token \in 1..issued'.passwords
           /\ \A d \in Browser : request'[d].at = "consume" => request'[d].was = "resetting"
<1>1. request \in [Browser -> RequestType] /\ issued.passwords \in Nat
  BY DEF AccountTypeOK
<1>2. request' = [request EXCEPT ![c] = next]
  BY DEF To
<1>3. /\ request' \in [Browser -> RequestType] /\ request'[c] = next
      /\ \A d \in Browser : d # c => request'[d] = request[d]
  BY <1>1, <1>2
<1>4. \A n : n \in 1..issued.passwords => n \in 1..issued'.passwords
  BY <1>1
<1> QED
  BY <1>3, <1>4 DEF AccountTypeOK

\* A step of a request that is not about a reset token keeps what is known of
\* them.
LEMMA ResetFrame ==
    ASSUME AccountTypeOK, ResetInv, NEW c \in Browser, NEW next, To(c, next),
           ~IsReset(request[c]), ~IsReset(next), UNCHANGED <<resets, resetUses, shared>>
    PROVE  ResetInv'
<1>1. request \in [Browser -> RequestType] /\ request' = [request EXCEPT ![c] = next]
  BY DEF AccountTypeOK, To
<1>2. request'[c] = next /\ \A d \in Browser : d # c => request'[d] = request[d]
  BY <1>1
<1>3. \A d \in Browser : \A t : /\ Resetting(d, t)' <=> Resetting(d, t)
                                /\ Resetting(d, t) => request'[d] = request[d]
  BY <1>2 DEF Resetting
<1>4. \A e, d \in Browser, t \in Nat : e # d /\ Resetting(e, t)' /\ Resetting(d, t)' => t \in shared'
  BY <1>3 DEF ResetInv
<1>5. ASSUME NEW p \in resetUses', p[1] \notin shared'
      PROVE  /\ \A d \in Browser : Resetting(d, p[1])' => request'[d].at = "consume"
             /\ p[1] \in resets' => \E d \in Browser : Resetting(d, p[1])'
  BY <1>3, <1>5 DEF ResetInv
<1> QED
  BY <1>4, <1>5 DEF ResetInv, ResetTokenUsedOnce, Resetting

\* Nothing of what AccountInv says of passwords changes.
LEMMA AccountFrame ==
    ASSUME AccountInv, NEW c \in Browser, NEW next \in RequestType, To(c, next),
           next.at # "consume", ~IsReset(next), ~IsReset(request[c]), user' \in UserRow,
           codes' \in [Email -> [code : Nat, user : Nat]],
           issued' \in [users : Nat, codes : Nat, passwords : Nat],
           issued'.passwords = issued.passwords,
           VerifiedIsCurrentUnlessOutdated', UNCHANGED <<resets, resetUses, shared>>
    PROVE  AccountInv'
<1>1. AccountTypeOK /\ ResetInv /\ issued.passwords \in Nat
  BY DEF AccountInv, AccountTypeOK
<1>2. /\ request' \in [Browser -> RequestType]
      /\ \A d \in Browser : IsReset(request'[d]) => request'[d].token \in 1..issued'.passwords
      /\ \A d \in Browser : request'[d].at = "consume" => request'[d].was = "resetting"
  BY <1>1, AccountGoto
<1>3. AccountTypeOK'
  BY <1>1, <1>2 DEF AccountTypeOK
<1> QED
  BY <1>1, <1>3, ResetFrame DEF AccountInv

\* The account begins with no user, no code and no token.
LEMMA AccountInitInv == AccountInit => AccountInv
<1> SUFFICES ASSUME AccountInit PROVE AccountInv
  OBVIOUS
<1>1. NoUser \in UserRow /\ ~NoUser.verified
  BY DEF NoUser, UserRow, Address
<1>2. Done \in RequestType /\ ~IsReset(Done) /\ Done.at # "consume"
  BY DEF Done, RequestType, Editing, RequestStage, Purpose, Address, IsReset, ResetStage
<1>3. NoCode \in [code : Nat, user : Nat]
  BY DEF NoCode
<1>4. issued \in [users : Nat, codes : Nat, passwords : Nat]
  BY DEF AccountInit
<1>5. request \in [Browser -> RequestType] /\ \A c \in Browser : request[c] = Done
  BY <1>2 DEF AccountInit
<1>6. AccountTypeOK
  BY <1>1, <1>2, <1>3, <1>4, <1>5 DEF AccountTypeOK, AccountInit
<1>7. ResetInv
  BY <1>2, <1>5 DEF AccountInit, ResetInv, Resetting, ResetTokenUsedOnce
<1> QED
  BY <1>1, <1>6, <1>7 DEF AccountInv, AccountInit, VerifiedIsCurrentUnlessOutdated

\* Every statement, command, mail and failure of a request keeps the invariant.
LEMMA AccountInvStep == AccountInv /\ [AccountNext]_accountVars => AccountInv'
<1> SUFFICES ASSUME AccountInv, [AccountNext]_accountVars PROVE AccountInv'
  OBVIOUS
<1>0. /\ AccountTypeOK /\ ResetInv /\ VerifiedIsCurrentUnlessOutdated
      /\ user \in UserRow /\ codes \in [Email -> [code : Nat, user : Nat]]
      /\ request \in [Browser -> RequestType]
      /\ issued \in [users : Nat, codes : Nat, passwords : Nat]
      /\ issued.passwords \in Nat /\ issued.codes + 1 \in Nat /\ issued.users + 1 \in Nat
  BY DEF AccountInv, AccountTypeOK
<1>1. Done \in RequestType /\ ~IsReset(Done) /\ Done.at # "consume"
  BY DEF Done, RequestType, Editing, RequestStage, Purpose, Address, IsReset, ResetStage
<1>2. \A c \in Browser : /\ request[c].email \in Address /\ request[c].was \in Purpose
                         /\ request[c].token \in Nat
  BY <1>0 DEF RequestType
<1>3. ASSUME NEW c \in Browser, NEW at \in RequestStage \ ResetStage,
             at \in Editing => request[c].at \in Editing
      PROVE  /\ Onward(c, at) \in RequestType /\ Onward(c, at).at = at /\ ~IsReset(Onward(c, at))
  BY <1>0, <1>3 DEF Onward, RequestType, IsReset
<1>4. ASSUME NEW at \in RequestStage \ ResetStage, NEW e \in Address, NEW w \in Purpose, NEW t \in Nat,
             at \in Editing => w \in Address
      PROVE  LET r == [at |-> at, email |-> e, was |-> w, token |-> t] IN
             r \in RequestType /\ r.at = at /\ ~IsReset(r)
  BY <1>4 DEF RequestType, IsReset
<1>5. ASSUME NEW c \in Browser, NEW next \in RequestType, To(c, next), next.at \notin ResetStage,
             request[c].at \notin ResetStage,
             UNCHANGED <<user, codes, issued, proven, outdated, resets, resetUses, shared>>
      PROVE  AccountInv'
  <2>1. VerifiedIsCurrentUnlessOutdated'
    BY <1>0, <1>5 DEF VerifiedIsCurrentUnlessOutdated
  <2> QED
    BY <2>1, <1>0, <1>5, AccountFrame DEF IsReset, ResetStage
<1>6. {"store", "mail", "unregister", "activate", "discard", "verify", "profile", "unverify",
       "rollback", "done"} \subseteq RequestStage \ ResetStage
  BY DEF RequestStage, ResetStage
<1>7. {"registering", "resending", "verifying"} \subseteq Purpose /\ Email \subseteq Address /\ Address \subseteq Purpose
  BY DEF Purpose, Address
<1>8. ~(Done.at \in ResetStage)
  BY DEF Done, ResetStage
<1>9. ASSUME NEW c \in Browser,
             \/ SendMail(c) \/ SendFails(c) \/ DeleteTenantFails(c) \/ VerifyFails(c)
             \/ UpdateTenantPlan(c) \/ UpdateFails(c)
      PROVE  AccountInv'
  <2>1. request[c].at \notin ResetStage
    BY <1>9 DEF SendMail, SendFails, DeleteTenantFails, VerifyFails, UpdateTenantPlan, UpdateFails,
                On, ResetStage
  <2>2. UNCHANGED <<user, codes, issued, proven, outdated, resets, resetUses, shared>>
    BY <1>9 DEF SendMail, SendFails, DeleteTenantFails, VerifyFails, UpdateTenantPlan, UpdateFails, Fails
  <2>3. \/ To(c, Done)
        \/ \E at \in {"unregister", "discard", "rollback"} :
              To(c, Onward(c, at)) /\ (at = "rollback" => request[c].at = "unverify")
    BY <1>9 DEF SendMail, SendFails, DeleteTenantFails, VerifyFails, UpdateTenantPlan, UpdateFails, Fails, On
  <2>4. PICK next \in RequestType : To(c, next) /\ next.at \notin ResetStage
    BY <2>3, <1>1, <1>3, <1>6, <1>8 DEF Editing
  <2> QED
    BY <2>1, <2>2, <2>4, <1>5
<1>10. \A c \in Browser : request[c] = Done => request[c].at \notin ResetStage /\ ~IsReset(request[c])
  BY <1>1, <1>8
<1>11. ASSUME NEW c \in Browser, VerifyEmail(c) \/ ResendVerificationEmail(c) \/ UpdateCurrentUser(c)
       PROVE  AccountInv'
  <2>1. request[c] = Done /\ UNCHANGED <<user, codes, issued, proven, outdated, resets, resetUses, shared>>
    BY <1>11 DEF VerifyEmail, ResendVerificationEmail, UpdateCurrentUser
  <2>2. user.email \in Address /\ \A e \in Email : codes[e].code \in Nat
    BY <1>0 DEF UserRow
  <2>3. PICK at \in {"discard", "verify", "store", "profile"}, e \in Address, w \in Purpose, t \in Nat :
           /\ To(c, [at |-> at, email |-> e, was |-> w, token |-> t])
           /\ at = "profile" => w \in Address
    <3>1. CASE VerifyEmail(c)
      <4>1. PICK e \in Email : To(c, [at |-> IF user.verified THEN "discard" ELSE "verify",
                                      email |-> e, was |-> "verifying", token |-> codes[e].code])
        BY <3>1 DEF VerifyEmail
      <4>2. (IF user.verified THEN "discard" ELSE "verify") \in {"discard", "verify", "store", "profile"}
        OBVIOUS
      <4>3. e \in Address /\ "verifying" \in Purpose /\ codes[e].code \in Nat
        BY <1>7, <2>2
      <4> QED
        BY <4>1, <4>2, <4>3
    <3>2. CASE ResendVerificationEmail(c)
      BY <3>2, <2>2, <1>7 DEF ResendVerificationEmail
    <3>3. CASE UpdateCurrentUser(c)
      BY <3>3, <2>2, <1>7 DEF UpdateCurrentUser
    <3> QED
      BY <1>11, <3>1, <3>2, <3>3
  <2> DEFINE next == [at |-> at, email |-> e, was |-> w, token |-> t]
  <2>4. next \in RequestType /\ next.at \notin ResetStage
    BY <2>3, <1>4, <1>6 DEF Editing
  <2> HIDE DEF next
  <2> QED
    BY <2>1, <2>3, <2>4, <1>5, <1>10 DEF next
<1>12. ASSUME NEW c \in Browser, RegisterTenant(c) PROVE AccountInv'
  <2>1. PICK e \in Email :
           /\ user' = [id |-> issued.users + 1, email |-> e, verified |-> FALSE, password |-> 0]
           /\ To(c, [at |-> "store", email |-> e, was |-> "registering", token |-> 0])
    BY <1>12 DEF RegisterTenant
  <2>2. /\ request[c] = Done /\ issued' = [issued EXCEPT !.users = @ + 1]
        /\ UNCHANGED <<codes, proven, outdated, resets, resetUses, shared>>
    BY <1>12 DEF RegisterTenant
  <2>3. user' \in UserRow /\ ~user'.verified
    BY <2>1, <1>0, <1>7 DEF UserRow
  <2>4. issued' \in [users : Nat, codes : Nat, passwords : Nat] /\ issued'.passwords = issued.passwords
    BY <2>2, <1>0
  <2> DEFINE next == [at |-> "store", email |-> e, was |-> "registering", token |-> 0]
  <2>5. next \in RequestType /\ next.at = "store" /\ ~IsReset(next)
    BY <1>4, <1>6, <1>7 DEF Editing
  <2>6. VerifiedIsCurrentUnlessOutdated'
    BY <2>3 DEF VerifiedIsCurrentUnlessOutdated
  <2> HIDE DEF next
  <2> QED
    BY <2>1, <2>2, <2>3, <2>4, <2>5, <2>6, <1>0, <1>10, AccountFrame DEF next
<1>13. ASSUME NEW c \in Browser, StoreVerifyEmailToken(c) PROVE AccountInv'
  <2> DEFINE n == issued.codes + 1
             next == [request[c] EXCEPT !.at = "mail", !.token = n]
             row == [code |-> n, user |-> user.id]
  <2>1. /\ request[c].at = "store" /\ To(c, next) /\ codes' = [codes EXCEPT ![request[c].email] = row]
        /\ issued' = [issued EXCEPT !.codes = n]
        /\ UNCHANGED <<user, proven, outdated, resets, resetUses, shared>>
    BY <1>13 DEF StoreVerifyEmailToken, On
  <2>2. next \in RequestType /\ next.at = "mail"
    BY <1>0 DEF RequestType, RequestStage, Editing
  <2>3. row \in [code : Nat, user : Nat]
    BY <1>0 DEF UserRow
  <2> HIDE DEF n, next, row
  <2>4. codes' \in [Email -> [code : Nat, user : Nat]]
    BY <2>1, <2>3, <1>0
  <2>5. issued' \in [users : Nat, codes : Nat, passwords : Nat] /\ issued'.passwords = issued.passwords
    BY <2>1, <1>0 DEF n
  <2>6. VerifiedIsCurrentUnlessOutdated'
    BY <2>1, <1>0 DEF VerifiedIsCurrentUnlessOutdated
  <2> QED
    BY <2>1, <2>2, <2>4, <2>5, <2>6, <1>0, AccountFrame DEF IsReset, ResetStage
<1>14. ASSUME NEW c \in Browser, DeleteTenant(c) PROVE AccountInv'
  <2>1. /\ request[c].at = "unregister" /\ user' = NoUser /\ To(c, Done)
        /\ UNCHANGED <<codes, issued, proven, outdated, resets, resetUses, shared>>
    BY <1>14 DEF DeleteTenant, On
  <2>2. NoUser \in UserRow /\ ~NoUser.verified
    BY DEF NoUser, UserRow, Address
  <2>3. VerifiedIsCurrentUnlessOutdated'
    BY <2>1, <2>2 DEF VerifiedIsCurrentUnlessOutdated
  <2> QED
    BY <2>1, <2>2, <2>3, <1>0, <1>1, AccountFrame DEF IsReset, ResetStage
<1>15. ASSUME NEW c \in Browser, VerifyUserEmail(c) PROVE AccountInv'
  <2>1. /\ request[c].at = "verify" /\ To(c, Onward(c, "activate"))
        /\ user' = user \/ user' = [user EXCEPT !.verified = TRUE]
        /\ proven' = proven \cup {request[c].email}
        /\ outdated' = (outdated \/ request[c].email # user.email)
        /\ UNCHANGED <<codes, issued, resets, resetUses, shared>>
    BY <1>15 DEF VerifyUserEmail, On
  <2>2. user' \in UserRow /\ user'.email = user.email
    BY <2>1, <1>0 DEF UserRow
  <2>3. VerifiedIsCurrentUnlessOutdated'
    BY <2>1, <2>2 DEF VerifiedIsCurrentUnlessOutdated
  <2>4. Onward(c, "activate") \in RequestType /\ Onward(c, "activate").at = "activate"
        /\ ~IsReset(Onward(c, "activate"))
    BY <1>3, <1>6 DEF Editing
  <2> QED
    BY <2>1, <2>2, <2>3, <2>4, <1>0, AccountFrame DEF IsReset, ResetStage
<1>16. ASSUME NEW c \in Browser, DeleteVerifyEmailToken(c) PROVE AccountInv'
  <2>1. /\ request[c].at = "discard" /\ To(c, Done) /\ codes' = [codes EXCEPT ![request[c].email] = NoCode]
        /\ UNCHANGED <<user, issued, proven, outdated, resets, resetUses, shared>>
    BY <1>16 DEF DeleteVerifyEmailToken, On
  <2>2. codes' \in [Email -> [code : Nat, user : Nat]]
    BY <2>1, <1>0 DEF NoCode
  <2>3. VerifiedIsCurrentUnlessOutdated'
    BY <2>1, <1>0 DEF VerifiedIsCurrentUnlessOutdated
  <2> QED
    BY <2>1, <2>2, <2>3, <1>0, <1>1, AccountFrame DEF IsReset, ResetStage
<1>17. ASSUME NEW c \in Browser, ChangeProfile(c) \/ UnverifyUserEmail(c) \/ RollbackProfile(c)
       PROVE  AccountInv'
  <2>1. /\ request[c].at \in {"profile", "unverify", "rollback"}
        /\ UNCHANGED <<codes, issued, proven, outdated, resets, resetUses, shared>>
    BY <1>17 DEF ChangeProfile, UnverifyUserEmail, RollbackProfile, On
  <2>2. PICK next \in RequestType : To(c, next) /\ next.at \notin ResetStage
    BY <2>1, <1>17, <1>1, <1>3, <1>6, <1>8 DEF ChangeProfile, UnverifyUserEmail, RollbackProfile, Editing
  <2>3. user' \in UserRow /\ (user'.verified => user.verified /\ user'.email = user.email)
    <3>1. CASE UnverifyUserEmail(c)
      BY <3>1, <1>0 DEF UnverifyUserEmail, UserRow
    <3>2. CASE ChangeProfile(c) \/ RollbackProfile(c)
      <4>1. PICK e \in Address : user' = UpdateUserProfile(user, e)
        <5>1. request[c].at = "rollback" => request[c].was \in Address
          BY <1>0 DEF RequestType, Editing
        <5> QED
          BY <3>2, <5>1, <1>2 DEF ChangeProfile, RollbackProfile, On
      <4> DEFINE v == user.verified /\ user.email = e
      <4>2. v \in BOOLEAN
        OBVIOUS
      <4>3. user' = [user EXCEPT !.email = e, !.verified = v]
        BY <4>1 DEF UpdateUserProfile
      <4> HIDE DEF v
      <4>4. user' \in UserRow /\ user'.email = e /\ user'.verified = v
        BY <4>2, <4>3, <1>0 DEF UserRow
      <4> QED
        BY <4>4 DEF v
    <3> QED
      BY <1>17, <3>1, <3>2
  <2>4. VerifiedIsCurrentUnlessOutdated'
    BY <2>1, <2>3, <1>0 DEF VerifiedIsCurrentUnlessOutdated
  <2> QED
    BY <2>1, <2>2, <2>3, <2>4, <1>0, AccountFrame DEF IsReset, ResetStage
<1>18. CASE CodeExpires \/ UNCHANGED accountVars
  <2>1. UNCHANGED <<user, request, issued, proven, outdated, resets, resetUses, shared>>
    BY <1>18 DEF CodeExpires, accountVars
  <2>2. codes' \in [Email -> [code : Nat, user : Nat]]
    <3>1. NoCode \in [code : Nat, user : Nat]
      BY DEF NoCode
    <3> QED
      BY <3>1, <1>0, <1>18 DEF CodeExpires, accountVars
  <2> QED
    BY <2>1, <2>2, <1>0 DEF AccountInv, AccountTypeOK, ResetInv, Resetting, ResetTokenUsedOnce,
                            VerifiedIsCurrentUnlessOutdated
<1>19. ASSUME NEW c \in Browser, ForgotPassword(c) PROVE AccountInv'
  <2> DEFINE n == issued.passwords + 1
  <2>1. /\ resets' = resets \cup {n} /\ issued' = [issued EXCEPT !.passwords = n]
        /\ UNCHANGED <<user, codes, request, proven, outdated, resetUses, shared>>
    BY <1>19 DEF ForgotPassword
  <2>2. n \in Nat /\ issued'.passwords = n /\ issued' \in [users : Nat, codes : Nat, passwords : Nat]
    BY <2>1, <1>0
  <2>3. \A m : m \in 1..issued.passwords => m \in 1..n /\ m # n
    BY <1>0
  <2>4. n \in 1..n
    BY <1>0
  <2> HIDE DEF n
  <2>5. AccountTypeOK'
    BY <2>1, <2>2, <2>3, <2>4, <1>0 DEF AccountTypeOK
  <2>6. \A p \in resetUses : p[1] \in resets' => p[1] \in resets
    BY <2>1, <2>3, <1>0 DEF AccountTypeOK
  <2>7. ResetInv'
    BY <2>1, <2>6, <1>0 DEF ResetInv, Resetting, ResetTokenUsedOnce
  <2> QED
    BY <2>1, <2>5, <2>7, <1>0 DEF AccountInv, VerifiedIsCurrentUnlessOutdated
<1>20. ASSUME NEW c \in Browser, NEW next \in RequestType, To(c, next),
              next.at = "consume" => next.was = "resetting",
              IsReset(next) => next.token \in 1..issued.passwords,
              resets' \subseteq resets, UNCHANGED <<user, codes, issued, proven, outdated, resetUses>>,
              ResetInv'
       PROVE  AccountInv'
  <2>1. issued'.passwords \in Nat /\ issued.passwords <= issued'.passwords
    BY <1>0, <1>20
  <2>2. AccountTypeOK'
    <3>1. /\ request' \in [Browser -> RequestType]
          /\ \A d \in Browser : IsReset(request'[d]) => request'[d].token \in 1..issued'.passwords
          /\ \A d \in Browser : request'[d].at = "consume" => request'[d].was = "resetting"
      BY <2>1, <1>0, <1>20, AccountGoto
    <3> QED
      BY <3>1, <1>0, <1>20 DEF AccountTypeOK
  <2> QED
    BY <2>2, <1>0, <1>20 DEF AccountInv, VerifiedIsCurrentUnlessOutdated
<1>21. ASSUME NEW c \in Browser, NEW next, To(c, next)
       PROVE  request'[c] = next /\ \A d \in Browser : d # c => request'[d] = request[d]
  BY <1>0, <1>21 DEF To
<1>22. ASSUME NEW c \in Browser, ResetPassword(c) PROVE AccountInv'
  <2>1. PICK t \in resets :
           /\ To(c, [at |-> "password", email |-> "none", was |-> "resetting", token |-> t])
           /\ shared' = IF \E d \in Browser \ {c} : request[d].token = t /\ request[d].was = "resetting"
                          THEN shared \cup {t} ELSE shared
    BY <1>22 DEF ResetPassword
  <2>2. request[c] = Done /\ UNCHANGED <<user, codes, resets, issued, proven, outdated, resetUses>>
    BY <1>22 DEF ResetPassword
  <2> DEFINE next == [at |-> "password", email |-> "none", was |-> "resetting", token |-> t]
  <2>3. t \in Nat /\ t \in 1..issued.passwords
    BY <1>0 DEF AccountTypeOK
  <2>4. /\ next \in RequestType /\ IsReset(next) /\ next.at = "password" /\ next.token = t
    BY <2>3 DEF RequestType, RequestStage, Purpose, Address, Editing, IsReset, ResetStage
  <2> HIDE DEF next
  <2>5. To(c, next) /\ shared \subseteq shared'
    BY <2>1 DEF next
  <2>6. request'[c] = next /\ \A d \in Browser : d # c => request'[d] = request[d]
    BY <2>5, <1>21
  <2>7. \A u : ~Resetting(c, u)
    BY <2>2, <1>1 DEF Resetting
  <2>8. \A d \in Browser : d # c /\ Resetting(d, t) => t \in shared'
    BY <2>1 DEF Resetting, IsReset
  <2>9. /\ \A u : Resetting(c, u)' <=> u = t
        /\ \A d \in Browser : \A u : d # c => (Resetting(d, u)' <=> Resetting(d, u))
    BY <2>4, <2>6 DEF Resetting
  <2>10. \A e, d \in Browser, u \in Nat : e # d /\ Resetting(e, u)' /\ Resetting(d, u)' => u \in shared'
    BY <2>5, <2>8, <2>9, <1>0 DEF ResetInv
  <2>11. ASSUME NEW p \in resetUses', p[1] \notin shared'
         PROVE  /\ \A d \in Browser : Resetting(d, p[1])' => request'[d].at = "consume"
                /\ p[1] \in resets' => \E d \in Browser : Resetting(d, p[1])'
    <3>1. p \in resetUses /\ p[1] \notin shared
      BY <2>2, <2>5, <2>11
    <3>2. p[1] # t
      BY <3>1, <2>1, <2>7, <2>8, <2>11, <1>0 DEF ResetInv
    <3> QED
      BY <3>1, <3>2, <2>2, <2>6, <2>7, <2>9, <1>0 DEF ResetInv
  <2>12. ResetInv'
    BY <2>2, <2>5, <2>10, <2>11, <1>0 DEF ResetInv, ResetTokenUsedOnce, Resetting
  <2> QED
    BY <2>2, <2>3, <2>4, <2>5, <2>12, <1>20
<1>23. ASSUME NEW c \in Browser, ConsumeResetToken(c) \/ ConsumeFails(c) PROVE AccountInv'
  <2> DEFINE t == request[c].token
  <2>1. /\ request[c].at = "consume" /\ To(c, Done)
        /\ resets' = resets \ {t} \/ t \in shared'
        /\ shared \subseteq shared' /\ resets' \subseteq resets
        /\ UNCHANGED <<user, codes, issued, proven, outdated, resetUses>>
    BY <1>23 DEF ConsumeResetToken, ConsumeFails, DeleteResetToken, On
  <2> HIDE DEF t
  <2>2. request'[c] = Done /\ \A d \in Browser : d # c => request'[d] = request[d]
    BY <2>1, <1>21
  <2>3. /\ \A u : ~Resetting(c, u)' /\ (Resetting(c, u) => u = t)
        /\ \A d \in Browser : \A u : d # c => (Resetting(d, u)' <=> Resetting(d, u))
    BY <2>2, <1>1 DEF Resetting, t
  <2>4. \A e, d \in Browser, u \in Nat : e # d /\ Resetting(e, u)' /\ Resetting(d, u)' => u \in shared'
    BY <2>1, <2>3, <1>0 DEF ResetInv
  <2>5. ASSUME NEW p \in resetUses', p[1] \notin shared'
        PROVE  /\ \A d \in Browser : Resetting(d, p[1])' => request'[d].at = "consume"
               /\ p[1] \in resets' => \E d \in Browser : Resetting(d, p[1])'
    <3>1. p \in resetUses /\ p[1] \notin shared
      BY <2>1, <2>5
    <3>2. p[1] \in resets' => p[1] # t /\ p[1] \in resets
      BY <2>1, <2>5
    <3> QED
      BY <3>1, <3>2, <2>2, <2>3, <1>0 DEF ResetInv
  <2>6. ResetInv'
    BY <2>1, <2>4, <2>5, <1>0 DEF ResetInv, ResetTokenUsedOnce, Resetting
  <2> QED
    BY <2>1, <2>6, <1>1, <1>20
<1>24. ASSUME NEW c \in Browser, PasswordFails(c) PROVE AccountInv'
  <2>1. /\ request[c].at = "password" /\ To(c, Done)
        /\ UNCHANGED <<user, codes, issued, proven, outdated, resets, resetUses, shared>>
    BY <1>24 DEF PasswordFails, On, Fails
  <2>2. request'[c] = Done /\ \A d \in Browser : d # c => request'[d] = request[d]
    BY <2>1, <1>21
  <2>3. /\ \A u : ~Resetting(c, u)'
        /\ \A d \in Browser : \A u : d # c => (Resetting(d, u)' <=> Resetting(d, u))
    BY <2>2, <1>1 DEF Resetting
  <2>4. \A e, d \in Browser, u \in Nat : e # d /\ Resetting(e, u)' /\ Resetting(d, u)' => u \in shared'
    BY <2>1, <2>3, <1>0 DEF ResetInv
  <2>5. ASSUME NEW p \in resetUses', p[1] \notin shared'
        PROVE  /\ \A d \in Browser : Resetting(d, p[1])' => request'[d].at = "consume"
               /\ p[1] \in resets' => \E d \in Browser : Resetting(d, p[1])'
    <3>1. p \in resetUses /\ p[1] \notin shared
      BY <2>1, <2>5
    <3>2. ~Resetting(c, p[1])
      BY <3>1, <2>1, <1>0 DEF ResetInv
    <3> QED
      BY <3>1, <3>2, <2>1, <2>2, <2>3, <1>0 DEF ResetInv
  <2>6. ResetInv'
    BY <2>1, <2>4, <2>5, <1>0 DEF ResetInv, ResetTokenUsedOnce, Resetting
  <2> QED
    BY <2>1, <2>6, <1>1, <1>20
<1>25. ASSUME NEW c \in Browser, ChangePassword(c) PROVE AccountInv'
  <2> DEFINE next == [at |-> "password", email |-> "none", was |-> "changing", token |-> 0]
  <2>1. /\ request[c] = Done /\ To(c, next)
        /\ UNCHANGED <<user, codes, issued, proven, outdated, resets, resetUses, shared>>
    BY <1>25 DEF ChangePassword
  <2>2. next \in RequestType /\ ~IsReset(next) /\ next.at # "consume"
    BY DEF RequestType, RequestStage, Purpose, Address, Editing, IsReset, ResetStage
  <2> HIDE DEF next
  <2>3. ResetInv'
    BY <2>1, <2>2, <1>0, <1>10, ResetFrame
  <2> QED
    BY <2>1, <2>2, <2>3, <1>20
<1>26. ASSUME NEW c \in Browser, UpdateUserPassword(c) PROVE AccountInv'
  <2> DEFINE n == issued.passwords + 1
             t == request[c].token
             next == IF request[c].was = "resetting" THEN Onward(c, "consume") ELSE Done
  <2>1. /\ request[c].at = "password" /\ To(c, next) /\ issued' = [issued EXCEPT !.passwords = n]
        /\ user' = user \/ user' = [user EXCEPT !.password = n]
        /\ UNCHANGED <<codes, resets, proven, outdated, shared>>
    BY <1>26 DEF UpdateUserPassword, On
  <2>2. /\ request[c].was = "resetting" => resetUses' = resetUses \cup {<<t, n>>}
        /\ request[c].was # "resetting" => resetUses' = resetUses
    BY <1>26 DEF UpdateUserPassword
  <2>3. n \in Nat /\ issued'.passwords = n /\ issued' \in [users : Nat, codes : Nat, passwords : Nat]
    BY <2>1, <1>0
  <2>4. user' \in UserRow /\ user'.verified = user.verified /\ user'.email = user.email
    BY <2>1, <2>3, <1>0 DEF UserRow
  <2>5. \A m : m \in 1..issued.passwords => m \in 1..n
    BY <1>0
  <2>6. issued.passwords <= n
    BY <1>0
  <2>7. IsReset(request[c]) <=> request[c].was = "resetting"
    BY <2>1 DEF IsReset, ResetStage
  <2>8. IsReset(request[c]) => t \in 1..issued.passwords
    BY <1>0 DEF AccountTypeOK
  <2>9. /\ next \in RequestType
        /\ IsReset(request[c]) => IsReset(next) /\ next.at = "consume" /\ next.was = "resetting" /\ next.token = t
        /\ ~IsReset(request[c]) => next = Done
    <3>1. CASE request[c].was = "resetting"
      <4>1. /\ Onward(c, "consume") \in RequestType /\ Onward(c, "consume").at = "consume"
            /\ Onward(c, "consume").was = request[c].was /\ Onward(c, "consume").token = t
        BY <1>0 DEF Onward, RequestType, RequestStage, Editing
      <4> QED
        BY <4>1, <3>1, <2>7 DEF IsReset, ResetStage
    <3>2. CASE request[c].was # "resetting"
      BY <3>2, <2>7, <1>1
    <3> QED
      BY <3>1, <3>2
  <2> HIDE DEF n, t, next
  <2>10. AccountTypeOK'
    <3>1. next.at = "consume" => next.was = "resetting"
      BY <2>9, <1>1
    <3>2. IsReset(next) => next.token \in 1..issued'.passwords
      BY <2>3, <2>5, <2>8, <2>9, <1>1
    <3>3. /\ request' \in [Browser -> RequestType]
          /\ \A d \in Browser : IsReset(request'[d]) => request'[d].token \in 1..issued'.passwords
          /\ \A d \in Browser : request'[d].at = "consume" => request'[d].was = "resetting"
      BY <3>1, <3>2, <2>1, <2>3, <2>6, <2>9, <1>0, AccountGoto
    <3>4. \A p \in resetUses' : p[1] \in 1..issued'.passwords
      BY <2>2, <2>3, <2>5, <2>7, <2>8, <1>0 DEF AccountTypeOK
    <3> QED
      BY <3>3, <3>4, <2>1, <2>3, <2>4, <2>5, <1>0 DEF AccountTypeOK
  <2>11. ResetInv'
    <3>1. CASE ~IsReset(request[c])
      <4>1. UNCHANGED <<resets, resetUses, shared>> /\ ~IsReset(next)
        BY <3>1, <2>1, <2>2, <2>7, <2>9, <1>1
      <4> QED
        BY <4>1, <3>1, <2>1, <1>0, ResetFrame
    <3>2. CASE IsReset(request[c])
      <4>1. request'[c] = next /\ \A d \in Browser : d # c => request'[d] = request[d]
        BY <2>1, <1>21
      <4>2. \A d \in Browser : \A u : /\ Resetting(d, u)' <=> Resetting(d, u)
                                      /\ Resetting(c, u) <=> u = t
        BY <4>1, <3>2, <2>9 DEF Resetting, t
      <4>3. \A e, d \in Browser, u \in Nat : e # d /\ Resetting(e, u)' /\ Resetting(d, u)' => u \in shared'
        BY <4>2, <2>1, <1>0 DEF ResetInv
      <4>4. t \in Nat
        BY <1>2 DEF t
      <4>5. \A p \in resetUses : p[1] = t => t \in shared
        BY <4>2, <2>1, <1>0 DEF ResetInv
      <4>6. t \notin shared => \A d \in Browser : Resetting(d, t) => d = c
        BY <4>2, <4>4, <1>0 DEF ResetInv
      <4>7. ASSUME NEW p \in resetUses', p[1] \notin shared'
            PROVE  /\ \A d \in Browser : Resetting(d, p[1])' => request'[d].at = "consume"
                   /\ p[1] \in resets' => \E d \in Browser : Resetting(d, p[1])'
        <5>1. CASE p[1] = t
          BY <5>1, <4>1, <4>2, <4>6, <4>7, <3>2, <2>1, <2>9
        <5>2. CASE p[1] # t
          <6>1. p \in resetUses
            BY <5>2, <3>2, <2>2, <2>7
          <6> QED
            BY <6>1, <5>2, <4>1, <4>2, <4>7, <2>1, <1>0 DEF ResetInv
        <5> QED
          BY <5>1, <5>2
      <4>8. ResetTokenUsedOnce'
        <5>1. \A p \in resetUses' : p \in resetUses \/ (p = <<t, n>> /\ p[1] = t)
          BY <3>2, <2>2, <2>7
        <5> QED
          BY <5>1, <4>5, <2>1, <1>0 DEF ResetInv, ResetTokenUsedOnce
      <4> QED
        BY <4>3, <4>7, <4>8 DEF ResetInv, Resetting
    <3> QED
      BY <3>1, <3>2
  <2> QED
    BY <2>1, <2>4, <2>10, <2>11, <1>0 DEF AccountInv, VerifiedIsCurrentUnlessOutdated
<1>27. CASE RegisterElsewhere
  <2>1. UNCHANGED <<user, request, proven, outdated, resets, resetUses, shared>>
    BY <1>27 DEF RegisterElsewhere
  <2>2. issued' \in [users : Nat, codes : Nat, passwords : Nat] /\ issued'.passwords = issued.passwords
    BY <1>27, <1>0 DEF RegisterElsewhere
  <2>3. codes' \in [Email -> [code : Nat, user : Nat]]
    <3>1. [code |-> issued.codes + 1, user |-> issued.users + 1] \in [code : Nat, user : Nat]
      BY <1>0
    <3> QED
      BY <3>1, <1>0, <1>27 DEF RegisterElsewhere
  <2> QED
    BY <2>1, <2>2, <2>3, <1>0 DEF AccountInv, AccountTypeOK, ResetInv, Resetting, ResetTokenUsedOnce,
                                 VerifiedIsCurrentUnlessOutdated
<1> QED
  BY <1>9, <1>11, <1>12, <1>13, <1>14, <1>15, <1>16, <1>17, <1>18, <1>19, <1>22, <1>23, <1>24,
     <1>25, <1>26, <1>27 DEF AccountNext, AccountStep

\* VerifyEmail, UpdateCurrentUser: for any number of browsers, addresses, codes
\* and failures, an address is called verified only when its own code was
\* entered or a code of an earlier address was.
THEOREM VerifiedAddressProven == AccountSpec => []VerifiedIsCurrentUnlessOutdated
<1>1. AccountInv => VerifiedIsCurrentUnlessOutdated
  BY DEF AccountInv
<1> QED
  BY <1>1, AccountInitInv, AccountInvStep, PTL DEF AccountSpec

\* ResetPassword, DeleteResetToken: a reset token that no two requests held at
\* once, and whose deletion did not fail, sets one password.
THEOREM ResetTokensUsedOnce == AccountSpec => []ResetTokenUsedOnce
<1>1. AccountInv => ResetTokenUsedOnce
  BY DEF AccountInv, ResetInv
<1> QED
  BY <1>1, AccountInitInv, AccountInvStep, PTL DEF AccountSpec
-----------------------------------------------------------------------------
(* Feature flags: the registry, the handshakes and the pushes. *)

HandlerState == {"none", "upgraded", "registered", "serving", "closing", "done"}
AdminState ==
    {IdleAdmin} \cup [pc : {"lookup"}, flags : Nat]
                \cup [pc : {"write"}, flags : Nat, conn : Conn]

\* Types; a connection above dialled has no handler yet.
FlagsTypeOK ==
    /\ stored \in Nat /\ updates \in Nat /\ current \in Nat
    /\ admin \in [Admin -> AdminState]
    /\ conns \in 0..MaxConn
    /\ handler \in [Conn -> HandlerState]
    /\ env \in [Conn -> Nat]
    /\ serverEnd \in [Conn -> BOOLEAN] /\ agentEnd \in [Conn -> BOOLEAN]
    /\ wire \in [Conn -> Seq(Nat)]
    /\ agent \in 0..MaxConn /\ dialled \in 0..MaxConn
    /\ \A c \in Conn : c > dialled => handler[c] = "none"

\* As long as register closed no predecessor, the registry names the one
\* connection whose handler runs, the server closes its end last, and a
\* handler ends only after its agent has gone.
RegistryInv ==
    /\ agent # NoConn => agentEnd[agent] /\ handler[agent] # "none"
    /\ ~replaced =>
         \A c \in Conn :
           /\ handler[c] \in {"registered", "serving", "closing"} => conns = c
           /\ handler[c] \in {"upgraded", "registered", "serving", "closing"} => serverEnd[c]
           /\ handler[c] \in {"closing", "done"} => ~agentEnd[c]

\* Without overlapping updates one request is at work at most, with the flags
\* that are stored, and a handshake holds the flags that are stored.
UpdateInv ==
    ~raced =>
        /\ \A a \in Admin : admin[a].pc # "idle" =>
             admin[a].flags = stored /\ \A b \in Admin \ {a} : admin[b].pc = "idle"
        /\ \A c \in Conn : handler[c] \in {"upgraded", "registered"} => env[c] = stored

\* The last flags on their way to the agent, or those it runs with, are the
\* stored ones.
Sent(c) ==
    IF wire[c] = <<>> THEN current = stored ELSE wire[c][Len(wire[c])] = stored

\* A request that will still write to the connection.
Due(a, c) ==
    \/ admin[a].pc = "lookup"
    \/ admin[a].pc = "write" /\ admin[a].conn = c

FlowInv ==
    ~raced /\ ~replaced /\ stored # Empty =>
        \A c \in Conn : agent = c /\ handler[c] = "serving" =>
            Sent(c) \/ \E a \in Admin : Due(a, c)

FlagsInv == FlagsTypeOK /\ RegistryInv /\ UpdateInv /\ FlowInv

\* The last flags of what is left on the wire are still to come.
LEMMA LastOfTail ==
    ASSUME NEW s \in Seq(Nat), s # <<>>
    PROVE  /\ Head(s) \in Nat /\ Tail(s) \in Seq(Nat)
           /\ Tail(s) = <<>> => Head(s) = s[Len(s)]
           /\ Tail(s) # <<>> => Tail(s)[Len(Tail(s))] = s[Len(s)]
<1>1. Len(s) \in Nat /\ Len(s) # 0 /\ \A i \in 1..Len(s) : s[i] \in Nat
  OBVIOUS
<1>2. Tail(s) \in Seq(Nat) /\ Len(Tail(s)) = Len(s) - 1
  BY <1>1
<1>3. Head(s) = s[1]
  OBVIOUS
<1>4. Tail(s) = <<>> => Len(s) = 1
  <2>1. Len(<<>>) = 0
    OBVIOUS
  <2>2. ASSUME Tail(s) = <<>> PROVE Len(Tail(s)) = 0
    BY <2>1, <2>2, Zenon
  <2> QED
    BY <1>1, <1>2, <2>2
<1>5. Tail(s) # <<>> => Len(s) - 1 \in 1..(Len(s) - 1)
  BY <1>1, <1>2
<1>6. \A i \in 1..(Len(s) - 1) : Tail(s)[i] = s[i + 1]
  BY <1>1, <1>2
<1> QED
  BY <1>1, <1>2, <1>3, <1>4, <1>5, <1>6

\* What was appended last comes last.
LEMMA LastOfAppend ==
    ASSUME NEW s \in Seq(Nat), NEW f \in Nat
    PROVE  /\ Append(s, f) \in Seq(Nat) /\ Append(s, f) # <<>>
           /\ Append(s, f)[Len(Append(s, f))] = f
OBVIOUS

\* Nothing is dialled, stored or under way at the start.
LEMMA FlagsInitInv == FlagsInit => FlagsInv
<1> SUFFICES ASSUME FlagsInit PROVE FlagsInv
  OBVIOUS
<1> USE FlagsAssumption DEF FlagsInit, NoConn, Empty, Conn
<1>1. FlagsTypeOK
  BY DEF FlagsTypeOK, AdminState, HandlerState, IdleAdmin
<1>2. RegistryInv
  BY DEF RegistryInv
<1>3. UpdateInv
  BY DEF UpdateInv, IdleAdmin
<1>4. FlowInv
  BY DEF FlowInv
<1> QED
  BY <1>1, <1>2, <1>3, <1>4 DEF FlagsInv

\* Every step of the receiver, the handlers and the requests keeps the types.
LEMMA FlagsTypeStep == FlagsTypeOK /\ [FlagsNext]_flagVars => FlagsTypeOK'
<1> SUFFICES ASSUME FlagsTypeOK, [FlagsNext]_flagVars PROVE FlagsTypeOK'
  OBVIOUS
<1> USE FlagsAssumption DEF FlagsTypeOK, NoConn, Conn
<1> USE DEF updateVars, serverVars, agentVars, history
<1>1. CASE Dial
  <2>1. dialled + 1 \in Conn /\ dialled + 1 \in 0..MaxConn
    BY <1>1 DEF Dial
  <2>2. handler' = [handler EXCEPT ![dialled + 1] = "upgraded"] /\ dialled' = dialled + 1
    BY <1>1 DEF Dial
  <2>3. handler' \in [Conn -> HandlerState]
    BY <2>1, <2>2 DEF HandlerState
  <2>4. \A c \in Conn : c > dialled' => handler'[c] = "none"
    BY <2>1, <2>2
  <2>5. /\ env' \in [Conn -> Nat] /\ agent' \in 0..MaxConn /\ dialled' \in 0..MaxConn
        /\ serverEnd' \in [Conn -> BOOLEAN] /\ agentEnd' \in [Conn -> BOOLEAN]
    BY <1>1, <2>1 DEF Dial
  <2> QED
    BY <1>1, <2>3, <2>4, <2>5 DEF Dial
<1>2. CASE DialFails
  BY <1>2 DEF DialFails
<1>3. CASE HandleFlagUpdate
  <2>1. agent \in Conn /\ wire[agent] # <<>> /\ wire[agent] \in Seq(Nat)
    BY <1>3 DEF HandleFlagUpdate
  <2>2. Head(wire[agent]) \in Nat /\ Tail(wire[agent]) \in Seq(Nat)
    BY <2>1, LastOfTail
  <2>3. current' \in Nat /\ wire' \in [Conn -> Seq(Nat)]
    BY <1>3, <2>1, <2>2 DEF HandleFlagUpdate
  <2> QED
    BY <1>3, <2>3 DEF HandleFlagUpdate
<1>4. CASE ConnectionLost
  <2>1. wire' \in [Conn -> Seq(Nat)] /\ agentEnd' \in [Conn -> BOOLEAN] /\ agent' \in 0..MaxConn
    BY <1>4 DEF ConnectionLost
  <2> QED
    BY <1>4, <2>1 DEF ConnectionLost
<1>5. ASSUME NEW c \in Conn, Register(c) \/ HandleMessagesEnds(c) \/ Unregister(c)
      PROVE  FlagsTypeOK'
  <2>1. /\ conns' \in 0..MaxConn /\ serverEnd' \in [Conn -> BOOLEAN]
        /\ handler' \in [Conn -> HandlerState]
    <3>1. CASE Register(c)
      BY <3>1 DEF Register, HandlerState
    <3>2. CASE HandleMessagesEnds(c)
      BY <3>2 DEF HandleMessagesEnds, HandlerState
    <3>3. CASE Unregister(c)
      BY <3>3 DEF Unregister, HandlerState
    <3> QED
      BY <1>5, <3>1, <3>2, <3>3
  <2>2. handler[c] # "none"
    BY <1>5 DEF Register, HandleMessagesEnds, Unregister
  <2>3. \A x \in Conn : handler[x] = "none" => handler'[x] = "none"
    BY <1>5, <2>2 DEF Register, HandleMessagesEnds, Unregister
  <2> QED
    BY <1>5, <2>1, <2>3 DEF Register, HandleMessagesEnds, Unregister
<1>6. ASSUME NEW c \in Conn, NEW f \in Nat, WriteMessage(c, f) PROVE wire' \in [Conn -> Seq(Nat)]
  <2>1. Append(wire[c], f) \in Seq(Nat)
    BY LastOfAppend
  <2> QED
    BY <1>6, <2>1 DEF WriteMessage
<1>7. ASSUME NEW c \in Conn, SendCurrentFlags(c)
      PROVE  FlagsTypeOK'
  <2>1. wire' \in [Conn -> Seq(Nat)]
    BY <1>6, <1>7 DEF SendCurrentFlags
  <2>2. handler' \in [Conn -> HandlerState]
    BY <1>7 DEF SendCurrentFlags, HandlerState
  <2>3. \A x \in Conn : handler[x] = "none" => handler'[x] = "none"
    BY <1>7 DEF SendCurrentFlags
  <2> QED
    BY <1>7, <2>1, <2>2, <2>3 DEF SendCurrentFlags
<1>8. ASSUME NEW a \in Admin, UpdateFeatureFlags(a)
      PROVE  FlagsTypeOK'
  <2>1. PICK f \in {Empty, updates + 1} :
          stored' = f /\ admin' = [admin EXCEPT ![a] = [pc |-> "lookup", flags |-> f]]
    BY <1>8 DEF UpdateFeatureFlags
  <2>2. f \in Nat /\ updates' \in Nat
    BY <1>8 DEF UpdateFeatureFlags, Empty
  <2>3. [pc |-> "lookup", flags |-> f] \in AdminState
    BY <2>2 DEF AdminState
  <2>4. admin' \in [Admin -> AdminState] /\ stored' \in Nat
    BY <2>1, <2>2, <2>3
  <2> QED
    BY <1>8, <2>2, <2>4 DEF UpdateFeatureFlags
<1>9. ASSUME NEW a \in Admin, PushFlags(a)
      PROVE  FlagsTypeOK'
  <2>1. admin[a].flags \in Nat
    BY <1>9 DEF PushFlags, AdminState, IdleAdmin
  <2>2. conns # NoConn =>
          [pc |-> "write", flags |-> admin[a].flags, conn |-> conns] \in AdminState
    BY <2>1 DEF AdminState
  <2>3. IdleAdmin \in AdminState
    BY DEF AdminState
  <2>4. admin' \in [Admin -> AdminState]
    BY <1>9, <2>2, <2>3 DEF PushFlags
  <2> QED
    BY <1>9, <2>4 DEF PushFlags
<1>10. ASSUME NEW a \in Admin, WriteFlags(a)
       PROVE  FlagsTypeOK'
  <2>1. admin[a].flags \in Nat /\ admin[a].conn \in Conn
    BY <1>10 DEF WriteFlags, AdminState, IdleAdmin
  <2>2. wire' \in [Conn -> Seq(Nat)]
    BY <1>6, <1>10, <2>1 DEF WriteFlags
  <2>3. admin' \in [Admin -> AdminState]
    BY <1>10 DEF WriteFlags, AdminState
  <2> QED
    BY <1>10, <2>2, <2>3 DEF WriteFlags
<1>11. CASE UNCHANGED flagVars
  BY <1>11 DEF flagVars
<1> QED
  BY <1>1, <1>2, <1>3, <1>4, <1>5, <1>7, <1>8, <1>9, <1>10, <1>11
     DEF FlagsNext, Receiver, HandleWebSocket, HandleUpdateFlags

\* The registry names the running handler until a predecessor is replaced.
LEMMA RegistryStep ==
    FlagsTypeOK /\ RegistryInv /\ [FlagsNext]_flagVars => RegistryInv'
<1> SUFFICES ASSUME FlagsTypeOK, RegistryInv, [FlagsNext]_flagVars PROVE RegistryInv'
  OBVIOUS
<1> USE FlagsAssumption DEF FlagsTypeOK, NoConn, Conn, updateVars, serverVars, agentVars, history
<1>1. CASE Dial
  <2>1. /\ dialled + 1 \in Conn /\ handler[dialled + 1] = "none"
        /\ agent' = dialled + 1 /\ conns' = conns /\ replaced' = replaced
    BY <1>1 DEF Dial
  <2>2. /\ handler' = [handler EXCEPT ![dialled + 1] = "upgraded"]
        /\ serverEnd' = [serverEnd EXCEPT ![dialled + 1] = TRUE]
        /\ agentEnd' = [agentEnd EXCEPT ![dialled + 1] = TRUE]
    BY <1>1 DEF Dial
  <2> QED
    BY <2>1, <2>2 DEF RegistryInv
<1>2. CASE DialFails
  BY <1>2 DEF DialFails, RegistryInv
<1>3. CASE HandleFlagUpdate
  BY <1>3 DEF HandleFlagUpdate, RegistryInv
<1>4. CASE ConnectionLost
  BY <1>4 DEF ConnectionLost, RegistryInv
<1>5. ASSUME NEW c \in Conn, Register(c)
      PROVE  RegistryInv'
  <2>1. /\ handler[c] = "upgraded" /\ conns' = c
        /\ handler' = [handler EXCEPT ![c] = "registered"]
        /\ UNCHANGED <<agent, agentEnd>>
        /\ ~replaced' => ~replaced /\ conns = NoConn /\ serverEnd' = serverEnd
    BY <1>5 DEF Register
  <2>2. agent # NoConn => agentEnd'[agent] /\ handler'[agent] # "none"
    BY <2>1 DEF RegistryInv
  <2>3. ASSUME ~replaced', NEW x \in Conn
        PROVE  /\ handler'[x] \in {"registered", "serving", "closing"} => x = c
               /\ handler'[x] \in {"upgraded", "registered", "serving", "closing"} => serverEnd'[x]
               /\ handler'[x] \in {"closing", "done"} => ~agentEnd'[x]
    BY <2>1, <2>3 DEF RegistryInv
  <2> QED
    BY <2>1, <2>2, <2>3 DEF RegistryInv
<1>6. ASSUME NEW c \in Conn, SendCurrentFlags(c)
      PROVE  RegistryInv'
  BY <1>6 DEF SendCurrentFlags, RegistryInv
<1>7. ASSUME NEW c \in Conn, HandleMessagesEnds(c)
      PROVE  RegistryInv'
  BY <1>7 DEF HandleMessagesEnds, RegistryInv
<1>8. ASSUME NEW c \in Conn, Unregister(c)
      PROVE  RegistryInv'
  BY <1>8 DEF Unregister, RegistryInv
<1>9. ASSUME NEW a \in Admin, HandleUpdateFlags(a)
      PROVE  RegistryInv'
  <2>1. UNCHANGED <<agent, agentEnd, handler, conns, serverEnd, replaced>>
    BY <1>9 DEF HandleUpdateFlags, UpdateFeatureFlags, PushFlags, WriteFlags
  <2> QED
    BY <2>1 DEF RegistryInv
<1>10. CASE UNCHANGED flagVars
  BY <1>10 DEF flagVars, RegistryInv
<1> QED
  BY <1>1, <1>2, <1>3, <1>4, <1>5, <1>6, <1>7, <1>8, <1>9, <1>10
     DEF FlagsNext, Receiver, HandleWebSocket

\* Until updates overlap, the one request and the handshakes hold what is
\* stored.
LEMMA UpdateStep ==
    FlagsTypeOK /\ UpdateInv /\ [FlagsNext]_flagVars => UpdateInv'
<1> SUFFICES ASSUME FlagsTypeOK, UpdateInv, [FlagsNext]_flagVars PROVE UpdateInv'
  OBVIOUS
<1> USE FlagsAssumption DEF FlagsTypeOK, NoConn, Conn, updateVars, serverVars, agentVars, history
<1>1. CASE Dial
  <2>1. /\ dialled + 1 \in Conn /\ UNCHANGED <<stored, admin, raced>>
        /\ handler' = [handler EXCEPT ![dialled + 1] = "upgraded"]
        /\ env' = [env EXCEPT ![dialled + 1] = stored]
    BY <1>1 DEF Dial
  <2> QED
    BY <2>1 DEF UpdateInv
<1>2. CASE DialFails \/ HandleFlagUpdate \/ ConnectionLost \/ UNCHANGED flagVars
  <2>1. UNCHANGED <<stored, admin, raced, handler, env>>
    BY <1>2 DEF DialFails, HandleFlagUpdate, ConnectionLost, flagVars
  <2> QED
    BY <2>1 DEF UpdateInv
<1>3. ASSUME NEW c \in Conn, HandleWebSocket(c)
      PROVE  UpdateInv'
  <2>1. UNCHANGED <<stored, admin, raced, env>>
    BY <1>3 DEF HandleWebSocket, Register, SendCurrentFlags, HandleMessagesEnds, Unregister
  <2>2. \A x \in Conn : handler'[x] \in {"upgraded", "registered"} =>
                          handler[x] \in {"upgraded", "registered"}
    BY <1>3 DEF HandleWebSocket, Register, SendCurrentFlags, HandleMessagesEnds, Unregister
  <2> QED
    BY <2>1, <2>2 DEF UpdateInv
<1>4. ASSUME NEW a \in Admin, UpdateFeatureFlags(a)
      PROVE  UpdateInv'
  <2>1. PICK f \in {Empty, updates + 1} :
          stored' = f /\ admin' = [admin EXCEPT ![a] = [pc |-> "lookup", flags |-> f]]
    BY <1>4 DEF UpdateFeatureFlags
  <2>2. /\ handler' = handler
        /\ ~raced' => /\ \A b \in Admin : admin[b].pc = "idle"
                      /\ \A c \in Conn : handler[c] \notin {"upgraded", "registered"}
    BY <1>4 DEF UpdateFeatureFlags
  <2>3. admin'[a].flags = stored' /\ \A b \in Admin \ {a} : admin'[b] = admin[b]
    BY <2>1
  <2> QED
    BY <2>2, <2>3 DEF UpdateInv
<1>5. ASSUME NEW a \in Admin, PushFlags(a) \/ WriteFlags(a)
      PROVE  UpdateInv'
  <2>1. UNCHANGED <<stored, raced, handler, env>> /\ admin[a].pc # "idle"
    BY <1>5 DEF PushFlags, WriteFlags
  <2>2. \A b \in Admin \ {a} : admin'[b] = admin[b]
    BY <1>5 DEF PushFlags, WriteFlags
  <2>3. admin'[a].pc = "idle" \/ admin'[a].flags = admin[a].flags
    <3>1. CASE PushFlags(a)
      BY <3>1 DEF PushFlags, IdleAdmin
    <3>2. CASE WriteFlags(a)
      BY <3>2 DEF WriteFlags, IdleAdmin
    <3> QED
      BY <1>5, <3>1, <3>2
  <2> QED
    BY <2>1, <2>2, <2>3 DEF UpdateInv
<1> QED
  BY <1>1, <1>2, <1>3, <1>4, <1>5 DEF FlagsNext, Receiver, HandleUpdateFlags

\* The stored flags are with the agent, on the wire, or with a request that
\* will write them.
LEMMA FlowStep ==
    FlagsInv /\ [FlagsNext]_flagVars => FlowInv'
<1> SUFFICES ASSUME FlagsInv, [FlagsNext]_flagVars, ~raced', ~replaced', stored' # Empty,
                    NEW c \in Conn, agent' = c, handler'[c] = "serving"
             PROVE  Sent(c)' \/ \E a \in Admin : Due(a, c)'
  BY DEF FlowInv
<1> USE FlagsAssumption DEF NoConn, Conn, updateVars, serverVars, agentVars, history
<1>0. FlagsTypeOK /\ RegistryInv /\ UpdateInv /\ FlowInv
  BY DEF FlagsInv
<1>1. CASE Dial
  BY <1>0, <1>1 DEF Dial, FlagsTypeOK
<1>2. CASE DialFails
  <2>1. Sent(c) \/ \E a \in Admin : Due(a, c)
    BY <1>0, <1>2 DEF DialFails, FlowInv
  <2> QED
    BY <1>2, <2>1 DEF DialFails, Sent, Due
<1>3. CASE HandleFlagUpdate
  <2>1. /\ agent = c /\ wire[c] # <<>> /\ wire[c] \in Seq(Nat)
        /\ current' = IF Head(wire[c]) = Empty THEN current ELSE Head(wire[c])
        /\ wire' = [wire EXCEPT ![c] = Tail(@)]
        /\ UNCHANGED <<stored, admin, handler, raced, replaced>>
    BY <1>0, <1>3 DEF HandleFlagUpdate, FlagsTypeOK
  <2>2. Sent(c) \/ \E a \in Admin : Due(a, c)
    BY <1>0, <2>1 DEF FlowInv
  <2>3. CASE \E a \in Admin : Due(a, c)
    BY <2>1, <2>3 DEF Due
  <2>4. CASE Sent(c)
    <3>1. wire[c][Len(wire[c])] = stored /\ stored' = stored
      BY <2>1, <2>4 DEF Sent
    <3>2. wire'[c] = Tail(wire[c])
      BY <1>0, <2>1 DEF FlagsTypeOK
    <3>3. CASE Tail(wire[c]) = <<>>
      <4>1. current' = stored
        BY <2>1, <3>1, <3>3, LastOfTail
      <4> QED
        BY <4>1, <3>1, <3>2, <3>3 DEF Sent
    <3>4. CASE Tail(wire[c]) # <<>>
      BY <2>1, <3>1, <3>2, <3>4, LastOfTail DEF Sent
    <3> QED
      BY <3>3, <3>4
  <2> QED
    BY <2>2, <2>3, <2>4
<1>4. CASE ConnectionLost
  BY <1>4 DEF ConnectionLost
<1>5. ASSUME NEW x \in Conn, Register(x) \/ HandleMessagesEnds(x) \/ Unregister(x)
      PROVE  Sent(c)' \/ \E a \in Admin : Due(a, c)'
  <2>1. /\ UNCHANGED <<stored, admin, wire, current, agent, raced>> /\ ~replaced
        /\ handler[c] = "serving"
    <3>1. CASE Register(x)
      BY <1>0, <3>1 DEF Register, FlagsTypeOK
    <3>2. CASE HandleMessagesEnds(x)
      BY <1>0, <3>2 DEF HandleMessagesEnds, FlagsTypeOK
    <3>3. CASE Unregister(x)
      BY <1>0, <3>3 DEF Unregister, FlagsTypeOK
    <3> QED
      BY <1>5, <3>1, <3>2, <3>3
  <2>2. Sent(c) \/ \E a \in Admin : Due(a, c)
    BY <1>0, <2>1 DEF FlowInv
  <2> QED
    BY <2>1, <2>2 DEF Sent, Due
<1>6. ASSUME NEW x \in Conn, SendCurrentFlags(x)
      PROVE  Sent(c)' \/ \E a \in Admin : Due(a, c)'
  <2>1. /\ UNCHANGED <<stored, admin, current, agent, raced, replaced, serverEnd, agentEnd>>
        /\ agent = c /\ handler[x] = "registered"
    BY <1>6 DEF SendCurrentFlags
  <2>2. CASE x = c
    <3>1. env[c] = stored /\ serverEnd[c] /\ agentEnd[c]
      BY <1>0, <2>1, <2>2 DEF UpdateInv, RegistryInv
    <3>2. wire' = [wire EXCEPT ![c] = Append(@, stored)]
      BY <1>6, <2>1, <2>2, <3>1 DEF SendCurrentFlags, WriteMessage
    <3>3. wire'[c] = Append(wire[c], stored) /\ wire[c] \in Seq(Nat) /\ stored \in Nat
      BY <1>0, <3>2 DEF FlagsTypeOK
    <3> QED
      BY <2>1, <3>3, LastOfAppend DEF Sent
  <2>3. CASE x # c
    <3>1. handler[c] = "serving"
      BY <1>0, <1>6, <2>3 DEF SendCurrentFlags, FlagsTypeOK
    <3>2. conns = x /\ conns = c
      BY <1>0, <2>1, <3>1 DEF RegistryInv
    <3> QED
      BY <2>3, <3>2
  <2> QED
    BY <2>2, <2>3
<1>7. ASSUME NEW a \in Admin, UpdateFeatureFlags(a)
      PROVE  \E b \in Admin : Due(b, c)'
  <2>1. PICK f : admin' = [admin EXCEPT ![a] = [pc |-> "lookup", flags |-> f]]
    BY <1>7 DEF UpdateFeatureFlags
  <2>2. admin'[a].pc = "lookup"
    BY <1>0, <2>1 DEF FlagsTypeOK
  <2> QED
    BY <2>2 DEF Due
<1>8. ASSUME NEW a \in Admin, PushFlags(a)
      PROVE  Sent(c)' \/ \E b \in Admin : Due(b, c)'
  <2>1. /\ UNCHANGED <<stored, wire, current, agent, handler, conns, raced, replaced>>
        /\ agent = c /\ handler[c] = "serving" /\ conns = c
    BY <1>0, <1>8 DEF PushFlags, RegistryInv
  <2>2. admin'[a] = [pc |-> "write", flags |-> admin[a].flags, conn |-> c]
    BY <1>0, <1>8, <2>1 DEF PushFlags, FlagsTypeOK
  <2>3. Due(a, c)'
    BY <2>2 DEF Due
  <2> QED
    BY <2>3
<1>9. ASSUME NEW a \in Admin, WriteFlags(a)
      PROVE  Sent(c)' \/ \E b \in Admin : Due(b, c)'
  <2>1. /\ UNCHANGED <<stored, current, agent, handler, serverEnd, agentEnd, raced, replaced>>
        /\ agent = c /\ handler[c] = "serving" /\ admin[a].pc = "write"
        /\ WriteMessage(admin[a].conn, admin[a].flags)
        /\ \A b \in Admin \ {a} : admin'[b] = admin[b]
    BY <1>0, <1>9 DEF WriteFlags, FlagsTypeOK
  <2>2. admin[a].flags = stored /\ serverEnd[c] /\ agentEnd[c]
    BY <1>0, <2>1 DEF UpdateInv, RegistryInv
  <2>3. CASE admin[a].conn = c
    <3>1. wire' = [wire EXCEPT ![c] = Append(@, stored)]
      BY <2>1, <2>2, <2>3 DEF WriteMessage
    <3>2. wire'[c] = Append(wire[c], stored) /\ wire[c] \in Seq(Nat) /\ stored \in Nat
      BY <1>0, <3>1 DEF FlagsTypeOK
    <3> QED
      BY <2>1, <3>2, LastOfAppend, SMTT(30) DEF Sent
  <2>4. CASE admin[a].conn # c
    <3>1. wire'[c] = wire[c]
      BY <1>0, <2>1, <2>4 DEF WriteMessage, FlagsTypeOK
    <3>2. Sent(c) \/ \E b \in Admin : Due(b, c)
      BY <1>0, <2>1 DEF FlowInv
    <3>3. ~Due(a, c)
      BY <2>1, <2>4 DEF Due
    <3>4. \A b \in Admin \ {a} : Due(b, c) => Due(b, c)'
      BY <2>1 DEF Due
    <3> QED
      BY <2>1, <3>1, <3>2, <3>3, <3>4 DEF Sent
  <2> QED
    BY <2>3, <2>4
<1>10. CASE UNCHANGED flagVars
  BY <1>0, <1>10 DEF flagVars, FlowInv, Sent, Due
<1> QED
  BY <1>1, <1>2, <1>3, <1>4, <1>5, <1>6, <1>7, <1>8, <1>9, <1>10
     DEF FlagsNext, Receiver, HandleWebSocket, HandleUpdateFlags

\* HandleUpdateFlags, HandleWebSocket, FlagReceiver: for any number of
\* connections, updates and concurrent requests, a connected agent with nothing
\* left to receive runs with the stored flags, unless an update overlapped a
\* handshake or another update or a connection was replaced.
THEOREM FlagsReachAgent == FlagsSpec => []LatestFlagsUnlessRaced
<1>1. FlagsInv /\ [FlagsNext]_flagVars => FlagsInv'
  BY FlagsTypeStep, RegistryStep, UpdateStep, FlowStep DEF FlagsInv
<1>2. FlagsInv => LatestFlagsUnlessRaced
  <2> SUFFICES ASSUME FlagsInv, ~raced, ~replaced, NEW c \in Conn, Settled(c), stored # Empty
               PROVE  current = stored
    BY DEF LatestFlagsUnlessRaced
  <2>1. Sent(c) \/ \E a \in Admin : Due(a, c)
    BY DEF FlagsInv, FlowInv, Settled, Connected
  <2> QED
    BY <2>1 DEF Settled, Sent, Due
<1> QED
  BY <1>1, <1>2, FlagsInitInv, PTL DEF FlagsSpec
=============================================================================
