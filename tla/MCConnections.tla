--------------------------- MODULE MCConnections ---------------------------
(***************************************************************************)
(* Who is connected to the server: an agent and its feature flags, the     *)
(* sessions of a user, and the account of a user.  The three share no      *)
(* state and are explored one at a time.  Sessions and accounts are        *)
(* explored twice each, with one bound lower every time: every token but   *)
(* no wrong password, then wrong passwords and fewer tokens; every code    *)
(* but no password, then passwords and fewer codes.  The two of a pair     *)
(* meet in a login that is refused or clears the counter, and in a change  *)
(* of the password that needs an active tenant.                            *)
(***************************************************************************)
EXTENDS FeatureFlags, AuthSessions, Account, TLC

VARIABLE part

Symmetry == Permutations(Device)

LockoutTokens == 2 \* bound: tokens issued where wrong passwords are tried
PasswordCodes == 2 \* bound: codes sent where passwords are set

PartsInit ==
    /\ part \in {"flags", "sessions", "lockout", "account", "passwords"}
    /\ FlagsInit /\ SessionInit /\ AccountInit

PartsNext ==
    /\ UNCHANGED part
    /\ \/ part = "flags" /\ FlagsNext /\ UNCHANGED <<sessionVars, accountVars>>
       \/ /\ SessionNext /\ UNCHANGED <<flagVars, accountVars>>
          /\ \/ part = "sessions" /\ guessed' = 0
             \/ part = "lockout" /\ nextToken' <= LockoutTokens + 1
       \/ /\ AccountNext /\ UNCHANGED <<flagVars, sessionVars>>
          /\ \/ part = "account" /\ issued'.passwords = 0
             \/ part = "passwords" /\ issued'.codes <= PasswordCodes

PartsSpec == PartsInit /\ [][PartsNext]_<<part, flagVars, sessionVars, accountVars>>
=============================================================================
