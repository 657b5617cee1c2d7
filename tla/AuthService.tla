---------------------------- MODULE AuthService ----------------------------
(***************************************************************************)
(* neuronlm/core/auth.py: API keys, kept by their hash, and signed tokens,     *)
(* which are not kept at all.                                               *)
(*                                                                          *)
(*   api_keys  key -> whose it is, and whether it is active                    *)
(*   secret    which signing secret the process has; one that is not          *)
(*             configured is drawn anew by every process                     *)
(*                                                                          *)
(* A key stands for its SHA-256 hash: hashes and random keys do not collide.   *)
(* expires_at is never set.  A header is missing, malformed (no Bearer scheme,  *)
(* or not a key or token at all), or the credential it carries.              *)
(***************************************************************************)
EXTENDS Integers, Dict

CONSTANTS
    JwtExpiry,         \* ticks a token is valid for
    SecretConfigured,  \* whether jwt_secret_key comes from the environment
    Nobody             \* whom a refused header authenticates

ASSUME ExpiryAssumption == JwtExpiry \in Nat /\ SecretConfigured \in BOOLEAN

VARIABLES api_keys, secret

authVars == <<api_keys, secret>>

NoCredential == {[kind |-> "missing"], [kind |-> "malformed"]}
KeyCredential(k) == [kind |-> "api_key", key |-> k]

(* generate_api_key *)
GenerateKey(k, user) ==
    /\ api_keys' = Put(api_keys, k, [user |-> user, is_active |-> TRUE])
    /\ UNCHANGED secret

(* validate_api_key *)
ValidKey(k) == k \in DOMAIN api_keys /\ api_keys[k].is_active

(* Mutant: deactivating a second time reactivates. *)
DeactivateKey_Toggles(k) ==
    /\ api_keys' = IF k \in DOMAIN api_keys
                   THEN [api_keys EXCEPT ![k].is_active = ~@] ELSE api_keys
    /\ UNCHANGED secret

(* deactivate_api_key *)
DeactivateKey(k) ==
    /\ api_keys' = IF k \in DOMAIN api_keys
                   THEN [api_keys EXCEPT ![k].is_active = FALSE] ELSE api_keys
    /\ UNCHANGED secret

(* create_jwt_token *)
Token(user, at) ==
    [kind |-> "jwt", sub |-> user, exp |-> at + JwtExpiry, secret |-> secret]

(* validate_jwt_token: the signature, then the expiry. *)
ValidToken(t, at) == t.secret = secret /\ at <= t.exp

(* Mutant: a deactivated key is still accepted. *)
WhoIs_IgnoresActive(header, at) ==
    CASE header.kind = "api_key" /\ header.key \in DOMAIN api_keys -> api_keys[header.key].user
      [] header.kind = "jwt" /\ ValidToken(header, at) -> header.sub
      [] OTHER -> Nobody

(* authenticate: the user a header authenticates at a time, or Nobody. *)
WhoIs(header, at) ==
    CASE header.kind = "api_key" /\ ValidKey(header.key) -> api_keys[header.key].user
      [] header.kind = "jwt" /\ ValidToken(header, at) -> header.sub
      [] OTHER -> Nobody

(* A new process starts with no keys. *)
AuthRestart ==
    /\ api_keys' = Empty
    /\ secret' = IF SecretConfigured THEN secret ELSE secret + 1

AuthInit == api_keys = Empty /\ secret = 0
=============================================================================
