----------------------------- MODULE PasetoAuth -----------------------------
(***************************************************************************)
(* The PASETO middleware of crates/frappe-net/src/middleware/auth.rs.  A   *)
(* token is what it was encrypted with and says; pasetors is external.     *)
(***************************************************************************)
EXTENDS Naturals

CONSTANTS Keys   \* values of PASETO_SECRET_KEY that are the hex of 32 bytes

\* What PASETO_SECRET_KEY may hold.
Environments == Keys \cup {"unset", "not_hex", "wrong_length"}

\* Mutant of Ephemeral: the constant bytes of the test build.
EphemeralConstant(call) == <<"fill", 7>>

\* rand::thread_rng().fill_bytes: other bytes in every call
Ephemeral(call) == <<"random", call>>

\* The key that the call-th call of get_paseto_key returns.
get_paseto_key(env, call) == IF env \in Keys THEN <<"env", env>> ELSE Ephemeral(call)

\* The Authorization header: its form, and for a token what it was encrypted
\* with, when it is valid ("fine": now), and whether user_id and roles are in it.
Token(key, aad, when, user) ==
  [form |-> "token", key |-> key, aad |-> aad, when |-> when, user |-> user]

\* pasetors::local::decrypt under ClaimsValidationRules::new()
Decrypts(key, token) ==
  token.key = key /\ token.aad = "frappe-rust-v2" /\ token.when = "fine"

\* The middleware's response: the inner service's, with the claims, or a 401.
\* Its 500, for a key pasetors does not take, needs one that is not 32 bytes.
call(env, n, header) ==
  IF /\ header.form = "token"
     /\ Decrypts(get_paseto_key(env, n), header)
     /\ header.user
    THEN "service" ELSE "401"

-----------------------------------------------------------------------------
\* Requests, with the environment in which their token was made.
Requests ==
  [form : {"missing", "other_scheme", "malformed", "token"},
   minted_in : Environments, env : Environments, aad : {"frappe-rust-v2", "other"},
   when : {"fine", "expired", "not_yet", "no_exp"}, user : BOOLEAN]

\* A token that was made with the key of an earlier call.
Minted(c) ==
  [Token(get_paseto_key(c.minted_in, 1), c.aad, c.when, c.user) EXCEPT !.form = c.form]

NeedsSecret(c) ==
  call(c.env, 2, Minted(c)) = "service" <=>
    /\ c.env \in Keys /\ c.minted_in = c.env
    /\ c.form = "token" /\ c.aad = "frappe-rust-v2" /\ c.when = "fine" /\ c.user
=============================================================================
