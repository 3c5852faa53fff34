-------------------------------- MODULE Auth --------------------------------
(***************************************************************************)
(* security/auth and security/middlewares: services that sign and verify   *)
(* with keys they import on first use, and requests on their way through   *)
(* the guards before a handler.                                            *)
(*                                                                         *)
(* Everything up to an await is one step.  A key is looked up before the   *)
(* await of importKey and assigned after it, so concurrent first uses each *)
(* import it.  A request's place is the guard it is in (at), and the       *)
(* number of validators that have accepted its claims (checked).           *)
(***************************************************************************)
EXTENDS Tokens, FiniteSets

CONSTANTS Request,    \* requests
          Issuer,     \* calls of sign
          MaxIssued   \* bound on the tokens signed

ASSUME IssuedAssumption == MaxIssued \in Nat

VARIABLES cached,    \* the uses each strategy has a key for
          issued,    \* tokens signed so far
          signing,   \* the calls of sign
          request    \* the requests

vars == <<cached, issued, signing, request>>

Use == {"sign", "verify"}

\* A custom strategy has no key to import.
Ready(s) == IF Config[s].alg = "custom" THEN Use ELSE {}

\* #key of an HMAC strategy serves both uses; the others have #priv and #pub.
Imported(s, use) == IF Config[s].alg = "HS256" THEN Use ELSE {use}

KeyFor(s, use) == IF use = "sign" THEN Config[s].private ELSE Config[s].public

NoSigning == [phase |-> "idle", service |-> Absent, claims |-> Absent]

NoRequest == [phase |-> "idle", sent |-> Absent, at |-> 0, checked |-> 0, claims |-> Absent]

Init ==
  /\ cached = [s \in Service |-> Ready(s)]
  /\ issued = {}
  /\ signing = [i \in Issuer |-> NoSigning]
  /\ request = [r \in Request |-> NoRequest]

-----------------------------------------------------------------------------
(* sign.                                                                   *)

\* Up to the first await; a missing private key rejects the call.
Sign(i, s, claims) ==
  /\ signing[i].phase = "idle" /\ Cardinality(issued) < MaxIssued
  /\ Config[s].private # Missing
  /\ signing' = [signing EXCEPT ![i] =
       [phase |-> IF "sign" \in cached[s] THEN "signing" ELSE "importing",
        service |-> s, claims |-> claims]]
  /\ UNCHANGED <<cached, issued, request>>

\* importKey settles; a key that cannot be imported rejects the call.
SigningKeyImported(i) ==
  LET s == signing[i].service
  IN  /\ signing[i].phase = "importing"
      /\ IF Config[s].private = Corrupt
         THEN signing' = [signing EXCEPT ![i] = NoSigning] /\ cached' = cached
         ELSE /\ signing' = [signing EXCEPT ![i].phase = "signing"]
              /\ cached' = [cached EXCEPT ![s] = @ \cup Imported(s, "sign")]
      /\ UNCHANGED <<issued, request>>

Signed(i) ==
  /\ signing[i].phase = "signing"
  /\ issued' = issued \cup {TokenOf(Config[signing[i].service], signing[i].claims)}
  /\ signing' = [signing EXCEPT ![i] = NoSigning]
  /\ UNCHANGED <<cached, request>>

-----------------------------------------------------------------------------
(* A request and its guards.                                               *)

GuardOf(q) == q.sent.chain[q.at]

ServiceOf(q) == GuardOf(q).service

\* tokenFromRequest, or the token after the scheme of the header.
TokenIn(q) == q.sent[GuardOf(q).carrier]

Refuse(q) == [q EXCEPT !.phase = "refused"]

(***************************************************************************)
(* The guard finds no token, or verify rejects before it awaits: a token   *)
(* that does not decode, another algorithm, no key to verify with.         *)
(***************************************************************************)
RefusedAtOnce(q) ==
  \/ TokenIn(q) \in {Absent, Malformed}
  \/ TokenIn(q).alg # Config[ServiceOf(q)].alg
  \/ Config[ServiceOf(q)].public = Missing

\* Mutant: a guard inside another one trusts the claims it finds.
EnterTrusting(q) ==
  IF q.at > Len(q.sent.chain) \/ q.claims # Absent THEN [q EXCEPT !.phase = "served"]
  ELSE IF RefusedAtOnce(q) THEN Refuse(q)
  ELSE [q EXCEPT !.checked = 0,
                 !.phase = IF "verify" \in cached[ServiceOf(q)] THEN "verifying"
                           ELSE "importing"]

\* next(req): the following guard up to its first await, or the handler.
Enter(q) ==
  IF q.at > Len(q.sent.chain) THEN [q EXCEPT !.phase = "served"]
  ELSE IF RefusedAtOnce(q) THEN Refuse(q)
  ELSE [q EXCEPT !.checked = 0,
                 !.phase = IF "verify" \in cached[ServiceOf(q)] THEN "verifying"
                           ELSE "importing"]

Arrive(r, what) ==
  /\ request[r].phase = "idle"
  /\ request' = [request EXCEPT ![r] = Enter([NoRequest EXCEPT !.sent = what, !.at = 1])]
  /\ UNCHANGED <<cached, issued, signing>>

\* Mutant: an import that fails leaves its caller waiting.
VerifyingKeyAwaited(r) ==
  LET s == ServiceOf(request[r])
  IN  /\ request[r].phase = "importing"
      /\ Config[s].public # Corrupt
      /\ request' = [request EXCEPT ![r].phase = "verifying"]
      /\ cached' = [cached EXCEPT ![s] = @ \cup Imported(s, "verify")]
      /\ UNCHANGED <<issued, signing>>

VerifyingKeyImported(r) ==
  LET s == ServiceOf(request[r])
  IN  /\ request[r].phase = "importing"
      /\ IF Config[s].public = Corrupt
         THEN request' = [request EXCEPT ![r] = Refuse(@)] /\ cached' = cached
         ELSE /\ request' = [request EXCEPT ![r].phase = "verifying"]
              /\ cached' = [cached EXCEPT ![s] = @ \cup Imported(s, "verify")]
      /\ UNCHANGED <<issued, signing>>

\* crypto.subtle.verify answers; only then are the claims decoded.
SignatureChecked(r) ==
  /\ request[r].phase = "verifying"
  /\ request' = [request EXCEPT ![r] =
       IF SignatureHolds(Config[ServiceOf(@)], TokenIn(@))
       THEN [@ EXCEPT !.phase = "validating"] ELSE Refuse(@)]
  /\ UNCHANGED <<cached, issued, signing>>

\* The next validator returns or resolves, or throws or rejects.
Validated(r) ==
  LET q == request[r]
  IN  /\ q.phase = "validating" /\ q.checked < Len(Checks(GuardOf(q)))
      /\ request' = [request EXCEPT ![r] =
           IF TokenIn(q).claims \in Accepts[Checks(GuardOf(q))[q.checked + 1]]
           THEN [q EXCEPT !.checked = @ + 1] ELSE Refuse(q)]
      /\ UNCHANGED <<cached, issued, signing>>

\* setClaims replaces what an outer guard has set, and next(req) is called.
Admit(r) ==
  LET q == request[r]
  IN  /\ q.phase = "validating" /\ q.checked = Len(Checks(GuardOf(q)))
      /\ request' = [request EXCEPT ![r] =
           Enter([q EXCEPT !.claims = TokenIn(q).claims, !.at = @ + 1])]
      /\ UNCHANGED <<cached, issued, signing>>

-----------------------------------------------------------------------------
Steps(r) == VerifyingKeyImported(r) \/ SignatureChecked(r) \/ Validated(r) \/ Admit(r)

Next ==
  \/ \E i \in Issuer, s \in Service, claims \in Claims : Sign(i, s, claims)
  \/ \E i \in Issuer : SigningKeyImported(i) \/ Signed(i)
  \/ \E r \in Request, what \in Requests(issued) : Arrive(r, what)
  \/ \E r \in Request : Steps(r)

Spec == Init /\ [][Next]_vars

\* Web Crypto and the validators settle.
FairSpec == Spec /\ \A r \in Request : WF_vars(Steps(r))

-----------------------------------------------------------------------------
(* Properties.                                                             *)

\* Every variable keeps its type, and what a request carries can be on the wire.
TypeOK ==
  /\ cached \in [Service -> SUBSET Use]
  /\ issued \subseteq Token
  /\ signing \in [Issuer -> [phase : {"idle", "importing", "signing"},
                             service : Service \cup {Absent}, claims : Claims \cup {Absent}]]
  /\ request \in [Request ->
       [phase : {"idle", "importing", "verifying", "validating", "refused", "served"},
        sent : {Absent} \cup Requests(issued), at : Nat, checked : Nat,
        claims : Claims \cup {Absent}]]

VerdictOn(q) ==
  CASE q.phase = "served"  -> [admitted |-> TRUE, claims |-> q.claims]
    [] q.phase = "refused" -> [admitted |-> FALSE, claims |-> Absent]
    [] OTHER               -> Pending

Gate == INSTANCE AuthGate WITH
  sent <- [r \in Request |-> request[r].sent],
  verdict <- [r \in Request |-> VerdictOn(request[r])]

(***************************************************************************)
(* A request reaches its handler exactly if every guard's token was issued *)
(* with that guard's algorithm and key and all validators accept it, with  *)
(* the claims of the innermost token; whatever other requests import,      *)
(* verify or fail to, and however tokens are mixed up.                     *)
(***************************************************************************)
ImplementsGate == Gate!Spec

\* Every request is served or refused, a broken key or not.
RequestsEnd == \A r \in Request : request[r].phase # "idle" ~> request[r].phase \in {"refused", "served"}
=============================================================================
