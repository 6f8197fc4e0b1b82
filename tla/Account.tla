------------------------------- MODULE Account -------------------------------
(***************************************************************************)
(* Registration, e-mail verification and passwords of one owner            *)
(* (internal/service/auth_service.go, helper.go, tx_register_tenant.go).   *)
(*                                                                         *)
(* A request is a series of statements, commands to Redis and mails; each  *)
(* may fail, and the requests of other clients run in between.  A code is  *)
(* filed in Redis under the address it was sent to and names the user.     *)
(*                                                                         *)
(* Sessions (AuthSessions) and the form of passwords and addresses are     *)
(* left out: a password is the number of the request that set it.          *)
(***************************************************************************)
EXTENDS Integers

CONSTANTS
    Browser,       \* who sends requests, each one at a time
    Email,        \* addresses
    MaxUsers,     \* bound: registrations
    MaxCodes,     \* bound: verification codes ever sent
    MaxPasswords, \* bound: passwords ever set
    MaxFaults     \* bound: statements, commands and mails that fail

VARIABLES
    user,         \* the row of users: [id, email, verified, password], or NoUser
    plan,         \* plan_status of its tenant
    codes,        \* Redis verify_email:<address>: [code, user], code 0 is no key
    mailed,       \* <<address, code>> of the mails delivered
    resets,       \* Redis reset_token:<token>, a set of tokens
    request,      \* [Browser -> progress of its request]
    issued,       \* users, codes and passwords so far
    faults,       \* failures so far
    proven,       \* addresses whose code was entered, history
    outdated,     \* a code sent to an earlier address was entered, history
    resetUses,    \* <<token, password it set>>, history
    shared        \* reset tokens two requests held at once or whose deletion failed, history

accountVars == <<user, plan, codes, mailed, resets, request, issued, faults,
                 proven, outdated, resetUses, shared>>

NoUser == [id |-> 0, email |-> "none", verified |-> FALSE, password |-> 0]
NoCode == [code |-> 0, user |-> 0]
Done == [at |-> "done", email |-> "none", was |-> "none", token |-> 0]

AccountInit ==
    /\ user = NoUser /\ plan = "none"
    /\ codes = [e \in Email |-> NoCode] /\ mailed = {} /\ resets = {}
    /\ request = [c \in Browser |-> Done]
    /\ issued = [users |-> 0, codes |-> 0, passwords |-> 0] /\ faults = 0
    /\ proven = {} /\ outdated = FALSE /\ resetUses = {} /\ shared = {}
-----------------------------------------------------------------------------
To(c, next) == request' = [request EXCEPT ![c] = next]
On(c, at) == request[c].at = at
Onward(c, at) == [request[c] EXCEPT !.at = at]

\* The step the request is at fails, and the request goes to next.
Fails(c, next) ==
    /\ faults < MaxFaults /\ faults' = faults + 1
    /\ To(c, next)
    /\ UNCHANGED <<user, plan, codes, mailed, resets, issued, proven, outdated, resetUses, shared>>

\* TenantResolver: the protected routes are for users of an active tenant.
TenantIsActive == user # NoUser /\ plan = "active"
-----------------------------------------------------------------------------
(* Registration and the mail with the code. *)

\* RegisterTenantTx: tenant, owner and subscription in one transaction.  Only a
\* taken slug is refused: users are unique by tenant and address, so that any
\* address may be registered again, with a tenant of its own (RegisterElsewhere).
RegisterTenant(c) ==
    /\ request[c] = Done /\ user = NoUser /\ issued.users < MaxUsers
    /\ \E e \in Email :
          /\ user' = [id |-> issued.users + 1, email |-> e, verified |-> FALSE, password |-> 0]
          /\ To(c, [at |-> "store", email |-> e, was |-> "registering", token |-> 0])
    /\ plan' = "trialing"
    /\ issued' = [issued EXCEPT !.users = @ + 1]
    /\ UNCHANGED <<codes, mailed, resets, faults, proven, outdated, resetUses, shared>>

\* sendVerificationEmail: the code is stored, which replaces an earlier one for
\* the address, and mailed.  A new user whose mail failed is deleted again.
StoreVerifyEmailToken(c) ==
    /\ On(c, "store") /\ issued.codes < MaxCodes
    /\ codes' = [codes EXCEPT ![request[c].email] = [code |-> issued.codes + 1, user |-> user.id]]
    /\ issued' = [issued EXCEPT !.codes = @ + 1]
    /\ To(c, [request[c] EXCEPT !.at = "mail", !.token = issued.codes + 1])
    /\ UNCHANGED <<user, plan, mailed, resets, faults, proven, outdated, resetUses, shared>>
SendMail(c) ==
    /\ On(c, "mail")
    /\ mailed' = mailed \cup {<<request[c].email, request[c].token>>}
    /\ To(c, Done)
    /\ UNCHANGED <<user, plan, codes, resets, issued, faults, proven, outdated, resetUses, shared>>
SendFails(c) ==
    /\ request[c].at \in {"store", "mail"}
    /\ Fails(c, IF request[c].was = "registering" THEN Onward(c, "unregister") ELSE Done)
DeleteTenant(c) ==
    /\ On(c, "unregister")
    /\ user' = NoUser /\ plan' = "none"
    /\ To(c, Done)
    /\ UNCHANGED <<codes, mailed, resets, issued, faults, proven, outdated, resetUses, shared>>
DeleteTenantFails(c) == On(c, "unregister") /\ Fails(c, Done)
-----------------------------------------------------------------------------
(* VerifyEmail. *)

\* The code matches and its user exists; a verified user's code is only deleted.
VerifyEmail(c) ==
    /\ request[c] = Done
    /\ \E e \in Email :
          /\ <<e, codes[e].code>> \in mailed
          /\ codes[e].user = user.id
          /\ To(c, [at |-> IF user.verified THEN "discard" ELSE "verify",
                    email |-> e, was |-> "verifying", token |-> codes[e].code])
    /\ UNCHANGED <<user, plan, codes, mailed, resets, issued, faults, proven, outdated,
                   resetUses, shared>>
VerifyUserEmail(c) ==
    /\ On(c, "verify")
    /\ user' = IF user = NoUser THEN user ELSE [user EXCEPT !.verified = TRUE]
    /\ proven' = proven \cup {request[c].email}
    /\ outdated' = (outdated \/ request[c].email # user.email)
    /\ To(c, Onward(c, "activate"))
    /\ UNCHANGED <<plan, codes, mailed, resets, issued, faults, resetUses, shared>>
UpdateTenantPlan(c) ==
    /\ On(c, "activate")
    /\ plan' = IF user = NoUser THEN plan ELSE "active"
    /\ To(c, IF user = NoUser THEN Done ELSE Onward(c, "discard"))
    /\ UNCHANGED <<user, codes, mailed, resets, issued, faults, proven, outdated, resetUses, shared>>
\* DEL of the address's code, whichever it is by now.
DeleteVerifyEmailToken(c) ==
    /\ On(c, "discard")
    /\ codes' = [codes EXCEPT ![request[c].email] = NoCode]
    /\ To(c, Done)
    /\ UNCHANGED <<user, plan, mailed, resets, issued, faults, proven, outdated, resetUses, shared>>
VerifyFails(c) == request[c].at \in {"verify", "activate", "discard"} /\ Fails(c, Done)

ResendVerificationEmail(c) ==
    /\ request[c] = Done /\ TenantIsActive /\ ~user.verified
    /\ issued.codes < MaxCodes
    /\ To(c, [at |-> "store", email |-> user.email, was |-> "resending", token |-> 0])
    /\ UNCHANGED <<user, plan, codes, mailed, resets, issued, faults, proven, outdated,
                   resetUses, shared>>

\* Somebody registers another tenant with an address: the code of its owner, who
\* is another user, takes the place of the one filed under that address.
RegisterElsewhere ==
    /\ issued.users < MaxUsers /\ issued.codes < MaxCodes
    /\ \E e \in Email :
          codes' = [codes EXCEPT ![e] = [code |-> issued.codes + 1, user |-> issued.users + 1]]
    /\ issued' = [issued EXCEPT !.users = @ + 1, !.codes = @ + 1]
    /\ UNCHANGED <<user, plan, mailed, resets, request, faults, proven, outdated, resetUses, shared>>

\* The ten minutes of a delivered code are over; the last code the bound allows
\* is entered in time, so that the bound itself keeps nobody from verifying.
CodeExpires ==
    /\ issued.codes < MaxCodes
    /\ \A c \in Browser : ~On(c, "mail")
    /\ \E e \in Email : codes[e] # NoCode /\ codes' = [codes EXCEPT ![e] = NoCode]
    /\ UNCHANGED <<user, plan, mailed, resets, request, issued, faults, proven, outdated,
                   resetUses, shared>>
-----------------------------------------------------------------------------
(* UpdateCurrentUser with a new address. *)

UpdateCurrentUser(c) ==
    /\ request[c] = Done /\ TenantIsActive /\ issued.codes < MaxCodes
    /\ \E e \in Email \ {user.email} :
          To(c, [at |-> "profile", email |-> e, was |-> user.email, token |-> 0])
    /\ UNCHANGED <<user, plan, codes, mailed, resets, issued, faults, proven, outdated,
                   resetUses, shared>>
\* Mutant of UpdateUserProfile: the new address keeps the old one's verification.
UpdateUserEmailOnly(row, e) == [row EXCEPT !.email = e]
UpdateUserProfile(row, e) ==
    [row EXCEPT !.email = e, !.verified = @ /\ row.email = e]
ChangeProfile(c) ==
    /\ On(c, "profile")
    /\ user' = UpdateUserProfile(user, request[c].email)
    /\ To(c, Onward(c, "unverify"))
    /\ UNCHANGED <<plan, codes, mailed, resets, issued, faults, proven, outdated, resetUses, shared>>
UnverifyUserEmail(c) ==
    /\ On(c, "unverify")
    /\ user' = [user EXCEPT !.verified = FALSE]
    /\ To(c, Onward(c, "store"))
    /\ UNCHANGED <<plan, codes, mailed, resets, issued, faults, proven, outdated, resetUses, shared>>
RollbackProfile(c) ==
    /\ On(c, "rollback")
    /\ user' = UpdateUserProfile(user, request[c].was)
    /\ To(c, Done)
    /\ UNCHANGED <<plan, codes, mailed, resets, issued, faults, proven, outdated, resetUses, shared>>
UpdateFails(c) ==
    \/ request[c].at \in {"profile", "rollback"} /\ Fails(c, Done)
    \/ On(c, "unverify") /\ Fails(c, Onward(c, "rollback"))
-----------------------------------------------------------------------------
(* ForgotPassword, ResetPassword and ChangePassword. *)

ForgotPassword(c) ==
    /\ request[c] = Done /\ user # NoUser /\ issued.passwords < MaxPasswords
    /\ resets' = resets \cup {issued.passwords + 1}
    /\ issued' = [issued EXCEPT !.passwords = @ + 1]
    /\ UNCHANGED <<user, plan, codes, mailed, request, faults, proven, outdated, resetUses, shared>>
\* The token is read; it is deleted only after the password is stored.
ResetPassword(c) ==
    /\ request[c] = Done /\ user # NoUser /\ issued.passwords < MaxPasswords
    /\ \E t \in resets :
          /\ To(c, [at |-> "password", email |-> "none", was |-> "resetting", token |-> t])
          /\ shared' = IF \E d \in Browser \ {c} : request[d].token = t /\ request[d].was = "resetting"
                         THEN shared \cup {t} ELSE shared
    /\ UNCHANGED <<user, plan, codes, mailed, resets, issued, faults, proven, outdated, resetUses>>
UpdateUserPassword(c) ==
    /\ On(c, "password") /\ issued.passwords < MaxPasswords
    /\ user' = IF user = NoUser THEN user ELSE [user EXCEPT !.password = issued.passwords + 1]
    /\ issued' = [issued EXCEPT !.passwords = @ + 1]
    /\ resetUses' = IF request[c].was = "resetting"
                      THEN resetUses \cup {<<request[c].token, issued.passwords + 1>>} ELSE resetUses
    /\ To(c, IF request[c].was = "resetting" THEN Onward(c, "consume") ELSE Done)
    /\ UNCHANGED <<plan, codes, mailed, resets, faults, proven, outdated, shared>>

\* Mutant of DeleteResetToken: the token is left to expire.
KeepResetToken(t) == resets
DeleteResetToken(t) == resets \ {t}
ConsumeResetToken(c) ==
    /\ On(c, "consume")
    /\ resets' = DeleteResetToken(request[c].token)
    /\ To(c, Done)
    /\ UNCHANGED <<user, plan, codes, mailed, issued, faults, proven, outdated, resetUses, shared>>
ConsumeFails(c) ==
    /\ On(c, "consume") /\ faults < MaxFaults /\ faults' = faults + 1
    /\ shared' = shared \cup {request[c].token}
    /\ To(c, Done)
    /\ UNCHANGED <<user, plan, codes, mailed, resets, issued, proven, outdated, resetUses>>
\* The current password was right when the row was read.
ChangePassword(c) ==
    /\ request[c] = Done /\ TenantIsActive /\ issued.passwords < MaxPasswords
    /\ To(c, [at |-> "password", email |-> "none", was |-> "changing", token |-> 0])
    /\ UNCHANGED <<user, plan, codes, mailed, resets, issued, faults, proven, outdated,
                   resetUses, shared>>
PasswordFails(c) == On(c, "password") /\ Fails(c, Done)
-----------------------------------------------------------------------------
AccountStep(c) ==
    \/ StoreVerifyEmailToken(c) \/ SendMail(c) \/ DeleteTenant(c)
    \/ VerifyUserEmail(c) \/ UpdateTenantPlan(c) \/ DeleteVerifyEmailToken(c)
    \/ ChangeProfile(c) \/ UnverifyUserEmail(c) \/ RollbackProfile(c)
    \/ UpdateUserPassword(c) \/ ConsumeResetToken(c)

AccountNext ==
    \/ \E c \in Browser :
          \/ AccountStep(c)
          \/ RegisterTenant(c) \/ VerifyEmail(c) \/ ResendVerificationEmail(c) \/ UpdateCurrentUser(c)
          \/ ForgotPassword(c) \/ ResetPassword(c) \/ ChangePassword(c)
          \/ SendFails(c) \/ DeleteTenantFails(c) \/ VerifyFails(c) \/ UpdateFails(c)
          \/ ConsumeFails(c) \/ PasswordFails(c)
    \/ RegisterElsewhere \/ CodeExpires

\* A request goes on once begun; the owner enters a code that arrived, and asks
\* for another when the server lets them.
AccountSpec ==
    /\ AccountInit /\ [][AccountNext]_accountVars
    /\ \A c \in Browser : /\ WF_accountVars(AccountStep(c))
                         /\ WF_accountVars(VerifyEmail(c))
                         /\ WF_accountVars(ResendVerificationEmail(c))
-----------------------------------------------------------------------------
\* The address on record is called verified only when its own code was entered,
\* but for a code that had been sent to an earlier address of the user, which
\* stays good after the change (VerifyEmail, UpdateCurrentUser).
VerifiedIsCurrentUnlessOutdated ==
    user.verified /\ ~outdated => user.email \in proven

\* A reset token sets the password twice only when two requests held it at once
\* or its deletion failed (ResetPassword, DeleteResetToken).
ResetTokenUsedOnce ==
    \A p, q \in resetUses : p[1] = q[1] /\ p # q => p[1] \in shared

\* Every registered owner gets to verify the address and use the tenant, or the
\* registration is undone ("ResendVerificationEmail sends a fresh verification
\* email to an unverified user").
VerificationCompletes == (user # NoUser) ~> (user = NoUser \/ plan = "active")
=============================================================================
