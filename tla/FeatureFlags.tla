---------------------------- MODULE FeatureFlags ----------------------------
(***************************************************************************)
(* Feature flags from the database to the agent, for one environment:      *)
(*   - ws_handler.go on the server: one HandleWebSocket goroutine per      *)
(*     connection, the registry conns (env_id -> connection), and the      *)
(*     HandleUpdateFlags requests that store new flags and push them;      *)
(*   - flags.go on the agent: the FlagReceiver that dials, applies what it *)
(*     receives and reconnects with exponential backoff.                   *)
(* A connection has two ends, which may close at different times: TCP      *)
(* tells the server of a lost agent late.                                  *)
(***************************************************************************)
EXTENDS Integers, Sequences

CONSTANTS
    Admin,          \* concurrent HandleUpdateFlags requests
    MaxConn,        \* bound: connections ever dialled
    MaxUpdates,     \* bound: flag updates ever stored
    ReconnectDelay, \* initial backoff
    ReconnectMaxDelay

ASSUME FlagsAssumption ==
    /\ MaxConn \in Nat /\ MaxUpdates \in Nat
    /\ ReconnectDelay \in Nat \ {0} /\ ReconnectMaxDelay \in Nat
    /\ ReconnectDelay <= ReconnectMaxDelay

Conn == 1..MaxConn
NoConn == 0

\* Flags are told apart by the update that stored them; Empty is "{}", null or
\* an object without meaningful values.
Empty == 0
Flags == 0..MaxUpdates

VARIABLES
    stored,         \* environments.feature_flags
    updates,        \* number of updates stored
    admin,          \* [Admin -> progress of HandleUpdateFlags]
    conns,          \* the registry: the environment's entry, or NoConn
    handler,        \* [Conn -> progress of its HandleWebSocket]
    env,            \* [Conn -> flags of the environment validateRequest read]
    serverEnd,      \* [Conn -> TRUE while the server's end is open]
    agentEnd,       \* [Conn -> TRUE while the agent's end is open]
    wire,           \* [Conn -> flags_update messages under way to the agent]
    agent,          \* the FlagReceiver's connection, or NoConn while it waits
    current,        \* FlagReceiver.current
    delay,          \* FlagReceiver.Run's backoff
    dialled,        \* connections dialled so far
    replaced,       \* register has closed a predecessor, history
    raced           \* an update overlapped a handshake or another update, history

serverVars == <<conns, handler, env, serverEnd>>
agentVars == <<agentEnd, agent, current, delay, dialled>>
updateVars == <<stored, updates, admin>>
history == <<replaced, raced>>
flagVars == <<updateVars, serverVars, agentVars, wire, history>>

IdleAdmin == [pc |-> "idle"]

FlagsInit ==
    /\ stored = Empty /\ updates = 0
    /\ admin = [a \in Admin |-> IdleAdmin]
    /\ conns = NoConn
    /\ handler = [c \in Conn |-> "none"]
    /\ env = [c \in Conn |-> Empty]
    /\ serverEnd = [c \in Conn |-> FALSE]
    /\ agentEnd = [c \in Conn |-> FALSE]
    /\ wire = [c \in Conn |-> <<>>]
    /\ agent = NoConn /\ current = Empty
    /\ delay = ReconnectDelay /\ dialled = 0
    /\ replaced = FALSE /\ raced = FALSE

\* A write succeeds while the server's end is open; an agent that is gone
\* never sees the message.
WriteMessage(c, f) ==
    wire' = IF serverEnd[c] /\ agentEnd[c]
              THEN [wire EXCEPT ![c] = Append(@, f)] ELSE wire
-----------------------------------------------------------------------------
(* The agent: FlagReceiver.Run and connectAndListen. *)

\* The pause before the next attempt grows every time, up to the cap.
Backoff(d) == IF 2 * d > ReconnectMaxDelay THEN ReconnectMaxDelay ELSE 2 * d

\* The dial reaches validateRequest, which reads the environment with its
\* flags, and the upgrade completes on the agent's side.
Dial ==
    /\ agent = NoConn /\ dialled < MaxConn
    /\ LET c == dialled + 1 IN
         /\ dialled' = c
         /\ agent' = c
         /\ handler' = [handler EXCEPT ![c] = "upgraded"]
         /\ env' = [env EXCEPT ![c] = stored]
         /\ serverEnd' = [serverEnd EXCEPT ![c] = TRUE]
         /\ agentEnd' = [agentEnd EXCEPT ![c] = TRUE]
    /\ UNCHANGED <<updateVars, conns, wire, current, delay, history>>

\* The dial fails, also after the credential refresh; Run waits and doubles
\* the delay.
DialFails ==
    /\ agent = NoConn
    /\ delay' = Backoff(delay)
    /\ UNCHANGED <<updateVars, serverVars, wire, agentEnd, agent, current, dialled, history>>

\* handleFlagUpdate: empty flags are ignored.
HandleFlagUpdate ==
    /\ agent # NoConn /\ wire[agent] # <<>>
    /\ current' = IF Head(wire[agent]) = Empty THEN current ELSE Head(wire[agent])
    /\ wire' = [wire EXCEPT ![agent] = Tail(@)]
    /\ UNCHANGED <<updateVars, serverVars, agentEnd, agent, delay, dialled, history>>

\* ReadMessage fails: the server closed and everything sent before is read,
\* or the network broke, taking what was under way with it.
\* connectAndListen returns the error, never nil while the agent runs, so Run
\* doubles the delay here too.
ConnectionLost ==
    /\ agent # NoConn
    /\ ~serverEnd[agent] => wire[agent] = <<>>
    /\ agentEnd' = [agentEnd EXCEPT ![agent] = FALSE]
    /\ wire' = [wire EXCEPT ![agent] = <<>>]
    /\ agent' = NoConn
    /\ delay' = Backoff(delay)
    /\ UNCHANGED <<updateVars, serverVars, current, dialled, history>>
-----------------------------------------------------------------------------
(* The server: one HandleWebSocket goroutine per connection. *)

\* register closes the connection it replaces.
Register(c) ==
    /\ handler[c] = "upgraded"
    /\ serverEnd' = IF conns = NoConn THEN serverEnd
                    ELSE [serverEnd EXCEPT ![conns] = FALSE]
    /\ conns' = c
    /\ handler' = [handler EXCEPT ![c] = "registered"]
    /\ replaced' = (replaced \/ conns # NoConn)
    /\ UNCHANGED <<updateVars, agentVars, env, wire, raced>>

\* Mutant of SendCurrentFlags: a new connection gets no flags.
SendNoFlags(c) ==
    /\ handler[c] = "registered"
    /\ handler' = [handler EXCEPT ![c] = "serving"]
    /\ UNCHANGED <<updateVars, agentVars, conns, env, serverEnd, wire, history>>

\* The flags validateRequest read are sent, unless they are empty.
SendCurrentFlags(c) ==
    /\ handler[c] = "registered"
    /\ IF env[c] = Empty THEN UNCHANGED wire ELSE WriteMessage(c, env[c])
    /\ handler' = [handler EXCEPT ![c] = "serving"]
    /\ UNCHANGED <<updateVars, agentVars, conns, env, serverEnd, history>>

\* handleMessages ends when ReadMessage reports the closed connection; the
\* deferred unregister is still to run.
HandleMessagesEnds(c) ==
    /\ handler[c] = "serving"
    /\ ~serverEnd[c] \/ ~agentEnd[c]
    /\ handler' = [handler EXCEPT ![c] = "closing"]
    /\ UNCHANGED <<updateVars, agentVars, conns, env, serverEnd, wire, history>>

\* delete(h.conns, envID), whatever connection the entry names by now.
Unregister(c) ==
    /\ handler[c] = "closing"
    /\ conns' = NoConn
    /\ serverEnd' = [serverEnd EXCEPT ![c] = FALSE]
    /\ handler' = [handler EXCEPT ![c] = "done"]
    /\ UNCHANGED <<updateVars, agentVars, env, wire, history>>
-----------------------------------------------------------------------------
(* HandleUpdateFlags *)

\* The UPDATE of the environment.
UpdateFeatureFlags(a) ==
    /\ admin[a].pc = "idle" /\ updates < MaxUpdates
    /\ updates' = updates + 1
    /\ \E f \in {Empty, updates + 1} :
          /\ stored' = f
          /\ admin' = [admin EXCEPT ![a] = [pc |-> "lookup", flags |-> f]]
    /\ raced' = (\/ raced
                 \/ \E b \in Admin : admin[b].pc # "idle"
                 \/ \E c \in Conn : handler[c] \in {"upgraded", "registered"})
    /\ UNCHANGED <<serverVars, agentVars, wire, replaced>>

\* PushFlags finds the connection under the read lock ...
PushFlags(a) ==
    /\ admin[a].pc = "lookup"
    /\ admin' = [admin EXCEPT ![a] =
                   IF conns = NoConn THEN IdleAdmin
                   ELSE [pc |-> "write", flags |-> admin[a].flags, conn |-> conns]]
    /\ UNCHANGED <<stored, updates, serverVars, agentVars, wire, history>>

\* ... and writes after releasing it.
WriteFlags(a) ==
    /\ admin[a].pc = "write"
    /\ WriteMessage(admin[a].conn, admin[a].flags)
    /\ admin' = [admin EXCEPT ![a] = IdleAdmin]
    /\ UNCHANGED <<stored, updates, serverVars, agentVars, history>>

Receiver == Dial \/ DialFails \/ HandleFlagUpdate \/ ConnectionLost
HandleWebSocket(c) ==
    Register(c) \/ SendCurrentFlags(c) \/ HandleMessagesEnds(c) \/ Unregister(c)
HandleUpdateFlags(a) == UpdateFeatureFlags(a) \/ PushFlags(a) \/ WriteFlags(a)

FlagsNext ==
    \/ Receiver
    \/ \E c \in Conn : HandleWebSocket(c)
    \/ \E a \in Admin : HandleUpdateFlags(a)

FlagsSpec == FlagsInit /\ [][FlagsNext]_flagVars
-----------------------------------------------------------------------------
(* Properties *)

\* The connection the agent listens on, served and open at both ends.
Connected(c) ==
    agent = c /\ handler[c] = "serving" /\ serverEnd[c] /\ agentEnd[c]

\* Nothing is being stored, pushed or under way.
Settled(c) ==
    Connected(c) /\ wire[c] = <<>> /\ \A a \in Admin : admin[a].pc = "idle"

\* When everything has settled a connected agent runs with the stored flags,
\* unless an update overlapped the handshake or another update, or a
\* connection was replaced.
LatestFlagsUnlessRaced ==
    ~raced /\ ~replaced =>
        \A c \in Conn : (Settled(c) /\ stored # Empty) => current = stored

\* "Connection registry: env_id -> active agent connection" (ws_handler.go):
\* a connected agent is registered.
ConnectedIsRegistered == \A c \in Conn : Connected(c) => conns = c
=============================================================================
