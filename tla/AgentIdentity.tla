---------------------------- MODULE AgentIdentity ----------------------------
(***************************************************************************)
(* Registration and credentials of an environment's agent (cmd/agent/      *)
(* main.go; internal/service/agent_register_service.go; api_key_auth.go).  *)
(*                                                                         *)
(* The dashboard issues a one-time token; the agent exchanges it for an    *)
(* API key, keeps the key in memory and in a file, and exchanges again     *)
(* when a request is answered 401.  A registration is three statements on  *)
(* the server without a transaction; its reply may be lost, the agent may  *)
(* be restarted, and its goroutines share one credentialManager.           *)
(*                                                                         *)
(* Tokens and keys are numbered, 0 is none; hashes and agent ids are left  *)
(* out.                                                                    *)
(***************************************************************************)
EXTENDS Integers

CONSTANTS
    Worker,       \* goroutines that send with the key: flusher, sender, ...
    MaxTokens,    \* bound: tokens ever issued
    MaxKeys,      \* bound: keys ever created
    MaxRetries,   \* attempts of registerWithRetry (5 in main.go)
    MaxFaults,    \* bound: failed statements, files and lost replies
    MaxStarts     \* bound: starts of the agent

VARIABLES
    regToken,     \* environments.registration_token
    tokens,       \* tokens issued so far
    keys,         \* keys that the server accepts
    created,      \* keys created so far
    proc,         \* the agent: "down", "starting" or "up", and its configured token
    cm,           \* credentialManager: key in memory and holder of the mutex
    file,         \* key in the credentials file
    used,         \* [Worker -> key of its request under way]
    call,         \* [caller -> progress of its registration]
    idFaults,     \* faults so far
    grants,       \* <<token, key>> of the registrations, history
    doubtful,     \* tokens looked up twice before they were cleared, history
    twice,        \* a refresh began for a key that had been replaced, history
    unsaved       \* the file could not be written, or the key came from the config, history

identityHistory == <<grants, doubtful, twice, unsaved>>
server == <<regToken, tokens, keys, created>>
identityVars == <<server, proc, cm, file, used, call, idFaults, identityHistory>>

Main == "main"
Caller == Worker \cup {Main}
NoOne == "no one"
NoCall == [at |-> "none", token |-> 0, key |-> 0, attempt |-> 0]

IdentityInit ==
    /\ regToken = 0 /\ tokens = 0 /\ keys = {} /\ created = 0
    /\ proc = [state |-> "down", token |-> 0, starts |-> 0]
    /\ cm = [key |-> 0, holder |-> NoOne] /\ file = 0
    /\ used = [w \in Worker |-> 0] /\ call = [p \in Caller |-> NoCall]
    /\ idFaults = 0 /\ grants = {} /\ doubtful = {} /\ twice = FALSE /\ unsaved = FALSE

Fault == idFaults < MaxFaults /\ idFaults' = idFaults + 1
Calls(p, at) == call[p].at = at
Set(p, next) == call' = [call EXCEPT ![p] = next]
-----------------------------------------------------------------------------
(* The dashboard. *)

\* A new token replaces the one before.
RegisterAgent ==
    /\ tokens < MaxTokens
    /\ tokens' = tokens + 1 /\ regToken' = tokens + 1
    /\ UNCHANGED <<keys, created, proc, cm, file, used, call, idFaults, identityHistory>>
\* The token's hour is over.
TokenExpires ==
    /\ regToken # 0 /\ regToken' = 0
    /\ UNCHANGED <<tokens, keys, created, proc, cm, file, used, call, idFaults, identityHistory>>
\* A key is revoked or expires.
RevokeAPIKey ==
    /\ \E k \in keys : keys' = keys \ {k}
    /\ UNCHANGED <<regToken, tokens, created, proc, cm, file, used, call, idFaults, identityHistory>>
\* AgentAPIKeyAuth: the key's row is active and not expired.
AgentAPIKeyAuth(k) == k \in keys
-----------------------------------------------------------------------------
(* SelfRegister, for the call of p: look the token up, create the key, clear *)
(* the token. *)

\* The token is compared with the row; p's token was good when it was read.
GetEnvironmentByRegistrationToken(p) ==
    /\ Calls(p, "lookup") /\ call[p].token = regToken
    /\ Set(p, [call[p] EXCEPT !.at = "create"])
    /\ doubtful' = IF \E q \in Caller : call[q].at \in {"create", "clear"} /\ call[q].token = regToken
                     THEN doubtful \cup {regToken} ELSE doubtful
    /\ UNCHANGED <<server, proc, cm, file, used, idFaults, grants, twice, unsaved>>
CreateAPIKey(p) ==
    /\ Calls(p, "create") /\ created < MaxKeys
    /\ created' = created + 1 /\ keys' = keys \cup {created + 1}
    /\ grants' = grants \cup {<<call[p].token, created + 1>>}
    /\ Set(p, [call[p] EXCEPT !.at = "clear", !.key = created + 1])
    /\ UNCHANGED <<regToken, tokens, proc, cm, file, used, idFaults, doubtful, twice, unsaved>>

\* Mutant of ClearedToken: only agent_id and status are set.
KeptToken == regToken
\* UPDATE ... WHERE id: whichever token is there by now.
ClearedToken == 0
ClearRegistrationToken(p) ==
    /\ Calls(p, "clear")
    /\ regToken' = ClearedToken
    /\ Set(p, [call[p] EXCEPT !.at = "reply"])
    /\ UNCHANGED <<tokens, keys, created, proc, cm, file, used, idFaults, identityHistory>>

\* 401 for an unknown token, 500 for a failed statement, or no reply at all.
Refuse(p) ==
    /\ Calls(p, "lookup") /\ call[p].token # regToken
    /\ Set(p, [call[p] EXCEPT !.at = "failed"])
    /\ UNCHANGED <<server, proc, cm, file, used, idFaults, identityHistory>>
SelfRegisterFails(p) ==
    /\ call[p].at \in {"create", "clear", "reply"} /\ Fault
    /\ doubtful' = IF Calls(p, "clear") THEN doubtful \cup {call[p].token} ELSE doubtful
    /\ Set(p, [call[p] EXCEPT !.at = "failed"])
    /\ UNCHANGED <<server, proc, cm, file, used, grants, twice, unsaved>>
\* A call whose caller is gone comes to its end on the server.
CallerGone(p) ==
    /\ call[p].at \in {"reply", "failed"}
    /\ IF p = Main THEN proc.state = "down" ELSE cm.holder # p
    /\ Set(p, NoCall)
    /\ UNCHANGED <<server, proc, cm, file, used, idFaults, identityHistory>>
-----------------------------------------------------------------------------
(* Start of the agent: loadOrRegister. *)

Up(key) == /\ proc' = [proc EXCEPT !.state = "up"]
           /\ cm' = [key |-> key, holder |-> NoOne]

Start ==
    /\ proc.state = "down" /\ proc.starts < MaxStarts
    /\ call[Main] = NoCall
    /\ \E t \in 0..tokens :
          proc' = [state |-> "starting", token |-> t, starts |-> proc.starts + 1]
    /\ UNCHANGED <<server, cm, file, used, call, idFaults, identityHistory>>
Starting == proc.state = "starting" /\ call[Main] = NoCall

\* AGENT_API_KEY and AGENT_ID are set: the file is not looked at.
StartConfigured ==
    /\ Starting /\ \E k \in 1..created : Up(k)
    /\ unsaved' = TRUE
    /\ UNCHANGED <<server, file, used, call, idFaults, grants, doubtful, twice>>
\* tryLoadValidCredentials; validateAPIKey takes a network error for a yes.
StartCached ==
    /\ Starting /\ file # 0
    /\ \/ AgentAPIKeyAuth(file) /\ UNCHANGED idFaults
       \/ ~AgentAPIKeyAuth(file) /\ Fault
    /\ Up(file)
    /\ UNCHANGED <<server, file, used, call, identityHistory>>
\* No file, or a key the server rejects, which is deleted.
StartRegisters ==
    /\ Starting /\ ~AgentAPIKeyAuth(file)
    /\ file' = 0
    /\ IF proc.token = 0
         THEN proc' = [proc EXCEPT !.state = "down"] /\ UNCHANGED call
         ELSE /\ Set(Main, [at |-> "lookup", token |-> proc.token, key |-> 0, attempt |-> 1])
              /\ UNCHANGED proc
    /\ UNCHANGED <<server, cm, used, idFaults, identityHistory>>
RegisterWithRetry ==
    /\ Calls(Main, "failed") /\ proc.state = "starting"
    /\ IF call[Main].attempt < MaxRetries
         THEN /\ Set(Main, [call[Main] EXCEPT !.at = "lookup", !.attempt = @ + 1])
              /\ UNCHANGED proc
         ELSE /\ Set(Main, NoCall)
              /\ proc' = [proc EXCEPT !.state = "down"]
    /\ UNCHANGED <<server, cm, file, used, idFaults, identityHistory>>

\* The file is written, or the agent goes on without it.
SaveCredentials(key) ==
    \/ file' = key /\ UNCHANGED <<idFaults, unsaved>>
    \/ Fault /\ unsaved' = TRUE /\ UNCHANGED file
StartRegistered ==
    /\ Calls(Main, "reply") /\ proc.state = "starting"
    /\ SaveCredentials(call[Main].key)
    /\ Up(call[Main].key)
    /\ Set(Main, NoCall)
    /\ UNCHANGED <<server, used, grants, doubtful, twice>>
Stop ==
    /\ proc.state # "down"
    /\ proc' = [proc EXCEPT !.state = "down"]
    /\ cm' = [key |-> 0, holder |-> NoOne] /\ used' = [w \in Worker |-> 0]
    /\ UNCHANGED <<server, file, call, idFaults, identityHistory>>
-----------------------------------------------------------------------------
(* The goroutines: a request, its 401, and the refresh under the mutex. *)

\* cm.APIKey(), then the request.
Send(w) ==
    /\ proc.state = "up" /\ cm.holder = NoOne /\ used[w] = 0
    /\ used' = [used EXCEPT ![w] = cm.key]
    /\ UNCHANGED <<server, proc, cm, file, call, idFaults, identityHistory>>
Accepted(w) ==
    /\ used[w] # 0 /\ AgentAPIKeyAuth(used[w]) /\ call[w] = NoCall
    /\ used' = [used EXCEPT ![w] = 0]
    /\ UNCHANGED <<server, proc, cm, file, call, idFaults, identityHistory>>
\* 401: the file is deleted and the configured token, perhaps used up, is tried,
\* whoever refreshed in the meantime.
RefreshOnUnauthorized(w) ==
    /\ used[w] # 0 /\ ~AgentAPIKeyAuth(used[w]) /\ call[w] = NoCall
    /\ cm.holder = NoOne
    /\ IF proc.token = 0
         THEN used' = [used EXCEPT ![w] = 0] /\ UNCHANGED <<cm, file, call, twice>>
         ELSE /\ cm' = [cm EXCEPT !.holder = w]
              /\ file' = 0
              /\ Set(w, [at |-> "lookup", token |-> proc.token, key |-> 0, attempt |-> 1])
              /\ twice' = (twice \/ used[w] # cm.key)
              /\ UNCHANGED used
    /\ UNCHANGED <<server, proc, idFaults, grants, doubtful, unsaved>>
\* Mutant of RefreshedFile: the refreshed key is kept in memory only.
RefreshedInMemory(key) == UNCHANGED <<file, idFaults, unsaved>>
RefreshedFile(key) == SaveCredentials(key)
Refreshed(w) ==
    /\ cm.holder = w /\ Calls(w, "reply")
    /\ cm' = [key |-> call[w].key, holder |-> NoOne]
    /\ RefreshedFile(call[w].key)
    /\ used' = [used EXCEPT ![w] = 0] /\ Set(w, NoCall)
    /\ UNCHANGED <<server, proc, grants, doubtful, twice>>
RefreshFails(w) ==
    /\ cm.holder = w /\ Calls(w, "failed")
    /\ cm' = [cm EXCEPT !.holder = NoOne]
    /\ used' = [used EXCEPT ![w] = 0] /\ Set(w, NoCall)
    /\ UNCHANGED <<server, proc, file, idFaults, identityHistory>>
-----------------------------------------------------------------------------
SelfRegister(p) ==
    \/ GetEnvironmentByRegistrationToken(p) \/ CreateAPIKey(p) \/ ClearRegistrationToken(p)
    \/ Refuse(p) \/ SelfRegisterFails(p) \/ CallerGone(p)

IdentityNext ==
    \/ RegisterAgent \/ TokenExpires \/ RevokeAPIKey
    \/ \E p \in Caller : SelfRegister(p)
    \/ Start \/ StartConfigured \/ StartCached \/ StartRegisters \/ RegisterWithRetry
    \/ StartRegistered \/ Stop
    \/ \E w \in Worker : Send(w) \/ Accepted(w) \/ RefreshOnUnauthorized(w)
                         \/ Refreshed(w) \/ RefreshFails(w)

IdentitySpec == IdentityInit /\ [][IdentityNext]_identityVars
-----------------------------------------------------------------------------
\* A registration token gives two keys only when it was looked up by two calls
\* before one cleared it, or its clearing failed: never by a retry after a lost
\* reply or a refresh long after ("clears the token so it cannot be reused",
\* agent_register_service.go).
TokenGrantsOneKey ==
    \A g, h \in grants : g[1] = h[1] /\ g # h => g[1] \in doubtful

\* A running agent whose key the server accepts has that key in its file, so
\* that a restart finds it, unless the file could not be written, the key came
\* from the configuration, or a goroutine refreshed for a key that another had
\* replaced already (RefreshOnUnauthorized deletes the file first).
RestartFindsKeyUnlessRefreshedTwice ==
    /\ proc.state = "up" /\ cm.holder = NoOne /\ AgentAPIKeyAuth(cm.key)
    /\ ~unsaved /\ ~twice
    => file = cm.key
=============================================================================
