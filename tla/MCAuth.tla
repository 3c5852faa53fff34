------------------------------- MODULE MCAuth -------------------------------
(* TLC instance of Auth: a service that signs and verifies, one with only  *)
(* its public key and a validator, and one with keys that do not import.   *)
EXTENDS Auth, TLC

CONSTANTS api, web, broken, rsa, user, admin, known, strict

MCConfig ==
  (api :> [alg |-> "RS256", private |-> rsa, public |-> rsa, validators |-> <<>>]) @@
  (web :> [alg |-> "RS256", private |-> Missing, public |-> rsa, validators |-> <<known>>]) @@
  (broken :> [alg |-> "EdDSA", private |-> Corrupt, public |-> Corrupt, validators |-> <<>>])

MCAccepts == (known :> {user, admin}) @@ (strict :> {admin})

Bearer(s) == [carrier |-> "bearer", service |-> s, extra |-> <<>>]

MCChain ==
  {<<Bearer(api), [carrier |-> "cookie", service |-> web, extra |-> <<strict>>]>>,
   <<Bearer(broken)>>}
=============================================================================
