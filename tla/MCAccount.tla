----------------------------- MODULE MCAccount -----------------------------
(* One user, one address and no failure: see MCAccount.cfg. *)
EXTENDS Account
=============================================================================
