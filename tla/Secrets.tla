------------------------------ MODULE Secrets ------------------------------
(***************************************************************************)
(* Secrets at rest (store/encrypt.go).  A store given a key encrypts the   *)
(* device and webhook secrets it writes and decrypts those it reads; one   *)
(* without a key is the plain store, which hands out what the column       *)
(* holds.  A value in the database is the secret and what it is sealed     *)
(* with; NoKey is a plaintext row.                                         *)
(***************************************************************************)
EXTENDS Integers

CONSTANTS
  SecretKeys,   \* the keys CTV_SECRET_KEY may be set to
  NoKey         \* not set

ASSUME SecretsAssumption == NoKey \notin SecretKeys

KeySettings == SecretKeys \cup {NoKey}

\* Mutated: decrypting a row without the prefix is an error like any other.
ReadsStrictly(key, sealed) ==
  IF key = sealed THEN "secret" ELSE IF key = NoKey THEN "ciphertext" ELSE "error"

\* What a store with `key' reads from a row sealed with `sealed': plaintext passes through any
\* store; ciphertext opens with its own key, is an error with another, and without a key is
\* taken for the secret itself.
Reads(key, sealed) ==
  CASE sealed \in {NoKey, key}         -> "secret"
    [] sealed # NoKey /\ key = NoKey   -> "ciphertext"
    [] OTHER                           -> "error"
=============================================================================
