------------------------------- MODULE Tokens -------------------------------
(***************************************************************************)
(* The data of authentication: services (security/auth/jwt/jwt.ts), the    *)
(* guards that ask them (security/middlewares), tokens, and what a set of  *)
(* issued tokens says of a request.                                        *)
(*                                                                         *)
(* A signature is a term: who signed what.  Web Crypto is taken at its     *)
(* word: a signature verifies under the public half of the pair that made  *)
(* it, with the same algorithm over the same input, and nothing else does. *)
(***************************************************************************)
EXTENDS Integers, Sequences

CONSTANTS Service,    \* JWT services
          Config,     \* the ServiceConfig each was created from
          Pair,       \* key pairs and HMAC secrets
          Claims,     \* claims of tokens
          Validator,  \* validation callbacks
          Accepts,    \* the claims each of them accepts
          Chain,      \* the guards before a handler, outermost first
          Missing,    \* a key that is not in the configuration
          Corrupt,    \* a key that importKey rejects
          Absent,     \* no header or one of another scheme, no cookie, no request
          Malformed   \* not three parts that decode

Algorithm == {"HS256", "RS256", "PS256", "EdDSA", "custom"}

Key == Pair \cup {Missing, Corrupt}

ServiceConfig == [alg : Algorithm, private : Key, public : Key, validators : Seq(Validator)]

(***************************************************************************)
(* createService: an HMAC secret is one key for both uses and has to be    *)
(* there, as have the two functions of a custom strategy.  Raw bytes and   *)
(* functions are never corrupt.  RSA and Ed25519 keys may be missing.      *)
(***************************************************************************)
Creatable(config) ==
  /\ config.alg \in {"HS256", "custom"} => {config.private, config.public} \subseteq Pair
  /\ config.alg = "HS256" => config.private = config.public

\* jwtMiddleware and grpcJwtInterceptor read the bearer, cookieMiddleware the cookie.
Guard == [carrier : {"bearer", "cookie"}, service : Service, extra : Seq(Validator)]

\* A decoded token: the algorithm of its header, its claims and its signature.
Token ==
  [alg : Algorithm, claims : Claims,
   signature : [alg : Algorithm, pair : Key, header : Algorithm, claims : Claims]]

ASSUME ConfigAssumption ==
  /\ Config \in [Service -> ServiceConfig]
  /\ \A s \in Service : Creatable(Config[s])
ASSUME ValidatorAssumption == Accepts \in [Validator -> SUBSET Claims]
ASSUME ChainAssumption == \A chain \in Chain : chain \in Seq(Guard) /\ chain # <<>>
ASSUME SentinelAssumption ==
  /\ Missing # Corrupt /\ {Missing, Corrupt} \cap Pair = {}
  /\ Absent # Malformed /\ {Absent, Malformed} \cap Token = {}
  /\ Absent \notin [chain : Chain, bearer : {Absent, Malformed} \cup Token,
                    cookie : {Absent, Malformed} \cup Token]

-----------------------------------------------------------------------------
(* Tokens.                                                                 *)

\* What the strategy alg makes of a header and claims with one half of a pair.
Signature(alg, pair, header, claims) ==
  [alg |-> alg, pair |-> pair, header |-> header, claims |-> claims]

\* The token that sign returns.
TokenOf(config, claims) ==
  [alg |-> config.alg, claims |-> claims,
   signature |-> Signature(config.alg, config.private, config.alg, claims)]

\* What strategy.verify answers once it has its key.
SignatureHolds(config, token) ==
  token.signature = Signature(config.alg, config.public, token.alg, token.claims)

\* Tokens that reach a server: those issued, and any with other claims or another header.
OnTheWire(issued) ==
  {Malformed} \cup
  {[t EXCEPT !.claims = claims] : t \in issued, claims \in Claims} \cup
  {[t EXCEPT !.alg = Config[s].alg] : t \in issued, s \in Service}

\* What a request carries, and the guards it will meet; only what they read is of interest.
Requests(issued) ==
  {sent \in [chain : Chain,
             bearer : {Absent} \cup OnTheWire(issued),
             cookie : {Absent} \cup OnTheWire(issued)] :
     \A carrier \in {"bearer", "cookie"} :
       (\A i \in DOMAIN sent.chain : sent.chain[i].carrier # carrier) => sent[carrier] = Absent}

-----------------------------------------------------------------------------
(* The verdict.                                                            *)

\* The validators of a service, then the extra ones of the guard.
Checks(guard) == Config[guard.service].validators \o guard.extra

Approves(guard, claims) ==
  \A i \in DOMAIN Checks(guard) : claims \in Accepts[Checks(guard)[i]]

\* The token is one that was issued with this service's algorithm and pair.
Genuine(issued, config, token) ==
  /\ token \in issued
  /\ token.signature.alg = config.alg /\ token.signature.pair = config.public

Passes(issued, guard, sent) ==
  /\ Genuine(issued, Config[guard.service], sent[guard.carrier])
  /\ Approves(guard, sent[guard.carrier].claims)

\* The claims of the innermost guard's token, if every guard lets the request pass.
Verdict(issued, sent) ==
  IF \A i \in DOMAIN sent.chain : Passes(issued, sent.chain[i], sent)
  THEN [admitted |-> TRUE, claims |-> sent[sent.chain[Len(sent.chain)].carrier].claims]
  ELSE [admitted |-> FALSE, claims |-> Absent]

Pending == [admitted |-> FALSE, claims |-> Malformed]
=============================================================================
