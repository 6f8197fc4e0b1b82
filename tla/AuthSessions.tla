---------------------------- MODULE AuthSessions ----------------------------
(***************************************************************************)
(* Logins, sessions and refresh tokens of one user                         *)
(* (internal/service/auth_service.go, helper.go, internal/cache/redis.go). *)
(*                                                                         *)
(* A session is a row of PostgreSQL, which decides whether a refresh token *)
(* is good, and a copy in Redis: the session under its own key and its id  *)
(* in the user's set, which the list of sessions is read from.  A request  *)
(* is a series of statements and commands; other requests run in between,  *)
(* a command to Redis may fail, which the service mostly ignores, and      *)
(* Redis may lose what it holds: it evicts keys when its memory is full    *)
(* (deploy/docker-compose.yml) and may be flushed.                         *)
(*                                                                         *)
(* Tokens and sessions are numbered; a session has the number of the first *)
(* refresh token issued for it.  Access tokens are not modelled: they are  *)
(* checked by signature and lifetime and outlive their session.            *)
(***************************************************************************)
EXTENDS Integers, FiniteSets

CONSTANTS
    Device,       \* the user's devices, each with at most one request under way
    MaxTokens,    \* bound: refresh tokens ever issued
    MaxLoginAttempts, \* failures that lock the account (5 in redis.go)
    MaxGuesses,   \* bound: wrong passwords ever tried
    MaxTroubles   \* bound: commands to Redis that fail and losses of its keys

ASSUME SessionsAssumption ==
    /\ IsFiniteSet(Device) /\ Device # {} /\ MaxLoginAttempts \in Nat \ {0}
    /\ MaxTokens \in Nat /\ MaxGuesses \in Nat /\ MaxTroubles \in Nat

VARIABLES
    sessions,     \* table sessions: rows [id, token]
    keys,         \* Redis session:<id>, as rows [id, token]
    members,      \* Redis user_sessions:<user>, a set of ids
    blacklist,    \* Redis blacklist:<token>
    attempts,     \* Redis login_attempts:<email>: failures, and whether it expires
    lockout,      \* Redis login_attempts:lockout:<email>
    nextToken,    \* number of the next refresh token
    op,           \* [Device -> progress of its request]
    redisFaults,  \* commands that failed
    exchanged,    \* <<token, token it was exchanged for>>, history
    contended,    \* tokens two refreshes held at once, history
    revoked,      \* sessions deleted by a logout or a password change, history
    disturbed,    \* two requests overlapped or a command failed, history
    guesses,      \* wrong passwords tried in the present window, history
    guessed,      \* wrong passwords tried at all, for the bound
    lost,         \* sessions whose copy Redis lost since it was stored, history
    losses        \* times Redis lost keys, for the bound

redis == <<keys, members, blacklist, attempts, lockout>>
losing == <<lost, losses>>
sessionHistory == <<exchanged, contended, revoked, disturbed, guesses, guessed, losing>>
sessionVars == <<sessions, redis, nextToken, op, redisFaults, sessionHistory>>

Resting == [at |-> "resting", token |-> 0, id |-> 0, ids |-> {}]
Progress(at, token, id, ids) == [at |-> at, token |-> token, id |-> id, ids |-> ids]

NoAttempts == [count |-> 0, expires |-> FALSE]

SessionInit ==
    /\ sessions = {} /\ keys = {} /\ members = {} /\ blacklist = {}
    /\ attempts = NoAttempts /\ lockout = FALSE
    /\ nextToken = 1 /\ op = [x \in Device |-> Resting] /\ redisFaults = 0
    /\ exchanged = {} /\ contended = {} /\ revoked = {} /\ disturbed = FALSE
    /\ guesses = 0 /\ guessed = 0 /\ lost = {} /\ losses = 0
-----------------------------------------------------------------------------
Goto(x, next) == op' = [op EXCEPT ![x] = next]
In(x, at) == op[x].at = at

\* A request begins; it overlaps when another is under way.
Begin(x, next) ==
    /\ op[x] = Resting
    /\ Goto(x, next)
    /\ disturbed' = (disturbed \/ \E y \in Device \ {x} : op[y] # Resting)

\* Bounds the commands that fail and the losses.
TroubleLeft == redisFaults + losses < MaxTroubles

\* The command of a step fails; the caller goes on all the same.
RedisFails(x, next) ==
    /\ TroubleLeft /\ redisFaults' = redisFaults + 1
    /\ disturbed' = TRUE
    /\ Goto(x, next)
    /\ UNCHANGED <<sessions, redis, nextToken, exchanged, contended, revoked, guesses, guessed,
                   losing>>
-----------------------------------------------------------------------------
(* Login: the lock, the password, the count of failures, the session. *)

\* Mutant of LockedAt: the lock comes one failure late.
LockedLate(count) == count > MaxLoginAttempts
LockedAt(count) == count >= MaxLoginAttempts

\* IsLoginLocked; an error of Redis lets the login go on.
Login(x) ==
    /\ nextToken <= MaxTokens
    /\ ~lockout
    /\ Begin(x, Progress("password", 0, 0, {}))
    /\ UNCHANGED <<sessions, redis, nextToken, redisFaults, exchanged, contended, revoked,
                   guesses, guessed, losing>>
LoginUnchecked(x) ==
    /\ op[x] = Resting /\ lockout /\ nextToken <= MaxTokens
    /\ RedisFails(x, Progress("password", 0, 0, {}))

\* A wrong password, then RecordLoginAttempt(false): INCR, and after it the
\* expiry of a new counter and the lock.
WrongPassword(x) ==
    /\ In(x, "password") /\ guessed < MaxGuesses
    /\ attempts' = [attempts EXCEPT !.count = @ + 1]
    /\ guesses' = guesses + 1 /\ guessed' = guessed + 1
    /\ Goto(x, Progress("failed", 0, attempts.count + 1, {}))
    /\ UNCHANGED <<sessions, keys, members, blacklist, lockout, nextToken, redisFaults,
                   exchanged, contended, revoked, disturbed, losing>>
\* INCR fails: the attempt is not counted.
WrongPasswordUncounted(x) ==
    /\ In(x, "password") /\ guessed < MaxGuesses
    /\ TroubleLeft /\ redisFaults' = redisFaults + 1
    /\ guesses' = guesses + 1 /\ guessed' = guessed + 1 /\ disturbed' = TRUE
    /\ Goto(x, Resting)
    /\ UNCHANGED <<sessions, redis, nextToken, exchanged, contended, revoked, losing>>
RecordLoginAttempt(x) ==
    /\ In(x, "failed")
    /\ attempts' = [attempts EXCEPT !.expires = @ \/ (op[x].id = 1 /\ attempts.count > 0)]
    /\ lockout' = (lockout \/ LockedAt(op[x].id))
    /\ Goto(x, Resting)
    /\ UNCHANGED <<sessions, keys, members, blacklist, nextToken, redisFaults, sessionHistory>>
RecordLoginAttemptFails(x) == In(x, "failed") /\ RedisFails(x, Resting)

\* The right password: the counter is cleared, the session stored.
RightPassword(x) ==
    /\ In(x, "password")
    /\ attempts' = NoAttempts /\ guesses' = 0
    /\ sessions' = sessions \cup {[id |-> nextToken, token |-> nextToken]}
    /\ nextToken' = nextToken + 1
    /\ Goto(x, Progress("set", nextToken, nextToken, {}))
    /\ UNCHANGED <<keys, members, blacklist, lockout, redisFaults, exchanged, contended,
                   revoked, disturbed, guessed, losing>>

\* The counter's window and the lock end; the window (15 min) is the shorter.
WindowEnds ==
    /\ attempts.expires
    /\ attempts' = NoAttempts /\ guesses' = 0
    /\ UNCHANGED <<sessions, keys, members, blacklist, lockout, nextToken, op, redisFaults,
                   exchanged, contended, revoked, disturbed, guessed, losing>>
LockoutEnds ==
    /\ lockout /\ ~attempts.expires
    /\ lockout' = FALSE /\ guesses' = 0
    /\ UNCHANGED <<sessions, keys, members, blacklist, attempts, nextToken, op, redisFaults,
                   exchanged, contended, revoked, disturbed, guessed, losing>>
-----------------------------------------------------------------------------
(* cache.CreateSession: SET, then SADD. *)

SetKey(x) ==
    /\ In(x, "set")
    /\ keys' = {k \in keys : k.id # op[x].id} \cup {[id |-> op[x].id, token |-> op[x].token]}
    /\ lost' = lost \ {op[x].id}
    /\ Goto(x, [op[x] EXCEPT !.at = "sadd"])
    /\ UNCHANGED <<sessions, members, blacklist, attempts, lockout, nextToken, redisFaults,
                   exchanged, contended, revoked, disturbed, guesses, guessed, losses>>
AddMember(x) ==
    /\ In(x, "sadd")
    /\ members' = members \cup {op[x].id}
    /\ Goto(x, Resting)
    /\ UNCHANGED <<sessions, keys, blacklist, attempts, lockout, nextToken, redisFaults,
                   sessionHistory>>
CreateSessionFails(x) == op[x].at \in {"set", "sadd"} /\ RedisFails(x, Resting)
-----------------------------------------------------------------------------
(* Refresh: rotation of the session's token. *)

\* VerifyToken and IsTokenBlacklisted; an error of Redis is answered 500.
RefreshToken(x) ==
    /\ nextToken <= MaxTokens
    /\ \E t \in 1..(nextToken - 1) \ blacklist : Begin(x, Progress("refresh", t, 0, {}))
    /\ UNCHANGED <<sessions, redis, nextToken, redisFaults, exchanged, contended, revoked,
                   guesses, guessed, losing>>

\* Mutant of GetSessionByToken: the session is found by its first token too.
GetSessionByAnyToken(token) == {s \in sessions : token \in {s.token, s.id}}
GetSessionByToken(token) == {s \in sessions : s.token = token}
SessionFound(x) ==
    /\ In(x, "refresh")
    /\ \E s \in GetSessionByToken(op[x].token) :
          Goto(x, Progress("blacklist", op[x].token, s.id, {}))
    /\ contended' = contended \cup
         (IF \E y \in Device \ {x} : op[y].at \in {"blacklist", "rotate"} /\ op[y].token = op[x].token
            THEN {op[x].token} ELSE {})
    /\ UNCHANGED <<sessions, redis, nextToken, redisFaults, exchanged, revoked, disturbed,
                   guesses, guessed, losing>>
SessionNotFound(x) ==
    /\ In(x, "refresh") /\ GetSessionByToken(op[x].token) = {}
    /\ Goto(x, Resting)
    /\ UNCHANGED <<sessions, redis, nextToken, redisFaults, sessionHistory>>
BlacklistToken(x) ==
    /\ In(x, "blacklist")
    /\ blacklist' = blacklist \cup {op[x].token}
    /\ Goto(x, [op[x] EXCEPT !.at = "rotate"])
    /\ UNCHANGED <<sessions, keys, members, attempts, lockout, nextToken, redisFaults,
                   sessionHistory>>
BlacklistTokenFails(x) == In(x, "blacklist") /\ RedisFails(x, [op[x] EXCEPT !.at = "rotate"])

\* UPDATE ... WHERE id: no row, no error.
UpdateSessionToken(id, token) ==
    {IF s.id = id THEN [s EXCEPT !.token = token] ELSE s : s \in sessions}
Rotate(x) ==
    /\ In(x, "rotate") /\ nextToken <= MaxTokens
    /\ sessions' = UpdateSessionToken(op[x].id, nextToken)
    /\ nextToken' = nextToken + 1
    /\ exchanged' = exchanged \cup {<<op[x].token, nextToken>>}
    /\ Goto(x, Progress("uncache", nextToken, op[x].id, {}))
    /\ UNCHANGED <<redis, redisFaults, contended, revoked, disturbed, guesses, guessed, losing>>
\* Mutant of DeleteSession: a refresh does not store the session again.
DeleteSessionForGood(x) ==
    /\ op[x].at \in {"uncache", "forget"}
    /\ keys' = {k \in keys : k.id # op[x].id}
    /\ members' = members \ {op[x].id}
    /\ Goto(x, Resting)
    /\ UNCHANGED <<sessions, blacklist, attempts, lockout, nextToken, redisFaults, sessionHistory>>
\* cache.DeleteSession; a refresh stores the session again, a revocation ends.
DeleteSession(x) ==
    /\ op[x].at \in {"uncache", "forget"}
    /\ keys' = {k \in keys : k.id # op[x].id}
    /\ members' = members \ {op[x].id}
    /\ Goto(x, IF In(x, "uncache") THEN [op[x] EXCEPT !.at = "set"] ELSE Resting)
    /\ UNCHANGED <<sessions, blacklist, attempts, lockout, nextToken, redisFaults, sessionHistory>>
DeleteSessionFails(x) ==
    /\ op[x].at \in {"uncache", "forget"}
    /\ RedisFails(x, IF In(x, "uncache") THEN [op[x] EXCEPT !.at = "set"] ELSE Resting)
-----------------------------------------------------------------------------
(* Logout, RevokeSession, and what a new password does to the sessions. *)

\* DELETE ... WHERE id: a session that is gone already is no error.
RevokeSession(x) ==
    /\ \E i \in {s.id : s \in sessions} \cup members :
          /\ Begin(x, Progress("forget", 0, i, {}))
          /\ sessions' = {s \in sessions : s.id # i}
          /\ revoked' = revoked \cup {i}
    /\ UNCHANGED <<redis, nextToken, redisFaults, exchanged, contended, guesses, guessed, losing>>
\* Logout of all devices, ChangePassword and ResetPassword.
RevokeAllSessions(x) ==
    /\ sessions # {}
    /\ Begin(x, Progress("purge", 0, 0, {}))
    /\ sessions' = {}
    /\ revoked' = revoked \cup {s.id : s \in sessions}
    /\ UNCHANGED <<redis, nextToken, redisFaults, exchanged, contended, guesses, guessed, losing>>
\* DeleteAllUserSessions: SMEMBERS, then DEL of those keys and of the set.
ReadMembers(x) ==
    /\ In(x, "purge")
    /\ Goto(x, IF members = {} THEN Resting ELSE Progress("delete", 0, 0, members))
    /\ UNCHANGED <<sessions, redis, nextToken, redisFaults, sessionHistory>>
DeleteAllUserSessions(x) ==
    /\ In(x, "delete")
    /\ keys' = {k \in keys : k.id \notin op[x].ids}
    /\ members' = {}
    /\ Goto(x, Resting)
    /\ UNCHANGED <<sessions, blacklist, attempts, lockout, nextToken, redisFaults, sessionHistory>>
DeleteAllFails(x) == op[x].at \in {"purge", "delete"} /\ RedisFails(x, Resting)

\* expires_at passes, in the row and in Redis; a session lasts days and a request
\* seconds, so not under a request.
SessionExpires ==
    /\ \A x \in Device : op[x] = Resting
    /\ \E s \in sessions : /\ sessions' = sessions \ {s}
                           /\ keys' = {k \in keys : k.id # s.id}
    /\ UNCHANGED <<members, blacklist, attempts, lockout, nextToken, op, redisFaults,
                   sessionHistory>>

\* Redis loses what it holds, at any time: one key that it evicts (allkeys-lru), the
\* user's set being one, or all of them at a flush.
RedisLosesKeys ==
    /\ TroubleLeft /\ losses' = losses + 1
    /\ \/ \E k \in keys : keys' = keys \ {k} /\ UNCHANGED <<members, blacklist, attempts, lockout>>
       \/ members # {} /\ members' = {} /\ UNCHANGED <<keys, blacklist, attempts, lockout>>
       \/ \E t \in blacklist : blacklist' = blacklist \ {t} /\ UNCHANGED <<keys, members, attempts, lockout>>
       \/ attempts # NoAttempts /\ attempts' = NoAttempts /\ UNCHANGED <<keys, members, blacklist, lockout>>
       \/ lockout /\ lockout' = FALSE /\ UNCHANGED <<keys, members, blacklist, attempts>>
       \/ /\ keys' = {} /\ members' = {} /\ blacklist' = {}
          /\ attempts' = NoAttempts /\ lockout' = FALSE
    /\ lost' = lost \cup {k.id : k \in keys \ keys'} \cup (members \ members')
    /\ guesses' = IF attempts' = attempts /\ lockout' = lockout THEN guesses ELSE 0
    /\ UNCHANGED <<sessions, nextToken, op, redisFaults, exchanged, contended, revoked,
                   disturbed, guessed>>

SessionNext ==
    \/ \E x \in Device :
          \/ Login(x) \/ LoginUnchecked(x) \/ WrongPassword(x) \/ WrongPasswordUncounted(x)
          \/ RecordLoginAttempt(x) \/ RecordLoginAttemptFails(x) \/ RightPassword(x)
          \/ SetKey(x) \/ AddMember(x) \/ CreateSessionFails(x)
          \/ RefreshToken(x) \/ SessionFound(x) \/ SessionNotFound(x)
          \/ BlacklistToken(x) \/ BlacklistTokenFails(x) \/ Rotate(x)
          \/ DeleteSession(x) \/ DeleteSessionFails(x)
          \/ RevokeSession(x) \/ RevokeAllSessions(x) \/ ReadMembers(x)
          \/ DeleteAllUserSessions(x) \/ DeleteAllFails(x)
    \/ WindowEnds \/ LockoutEnds \/ SessionExpires \/ RedisLosesKeys

SessionSpec == SessionInit /\ [][SessionNext]_sessionVars
-----------------------------------------------------------------------------
\* A refresh token is exchanged twice only by two refreshes that both had found
\* the session before either replaced its token: not by a replay, even when the
\* blacklisting of the old token failed.  A revoked session never comes back in
\* the database: a refresh that found it before the logout or password change
\* updates no row, so that its new token is worthless (RefreshToken).
RefreshUsedOnce ==
    /\ \A p, q \in exchanged : p[1] = q[1] /\ p # q => p[1] \in contended
    /\ \A s \in sessions : s.id \notin revoked

\* GetUserSessions: the copies in Redis, or the rows when there are none.
GetUserSessions ==
    LET cached == {k \in keys : k.id \in members} IN IF cached # {} THEN cached ELSE sessions
\* At rest, unless requests overlapped or a command to Redis failed, the list
\* shows no session that is not stored, with no token that was replaced, and of
\* the stored ones it leaves out only those whose copy Redis lost since it was
\* stored last: the list comes from the rows only when no copy at all is left
\* (persistSession, RefreshToken, Logout, GetUserSessions).
SessionListTrueUnlessDisturbed ==
    ~disturbed /\ (\A x \in Device : op[x] = Resting) =>
       /\ GetUserSessions \subseteq sessions
       /\ \A s \in sessions \ GetUserSessions : s.id \in lost

\* In one window of the counter, which ends when it or the lock expires, is
\* cleared or is lost, no more wrong passwords are tried than lock the account,
\* but for those under way when the lock came and those whose command
\* to Redis failed (Login, RecordLoginAttempt, IsLoginLocked).
GuessesBounded ==
    guesses <= MaxLoginAttempts + Cardinality(Device) - 1 + redisFaults
=============================================================================
