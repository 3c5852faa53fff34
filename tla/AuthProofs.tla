----------------------------- MODULE AuthProofs -----------------------------
(***************************************************************************)
(* Proofs about security/auth/jwt and security/middlewares, for any        *)
(* services, key pairs, validators, chains of guards and requests.         *)
(***************************************************************************)
EXTENDS Auth, TLAPS

(***************************************************************************)
(* The parts of the inductive invariant.                                   *)
(***************************************************************************)
\* A token that was issued is what TokenOf made, with a key that could sign.
WellSigned ==
  \A t \in issued : \E s \in Service, claims \in Claims :
    t = TokenOf(Config[s], claims) /\ Config[s].private \in Pair

\* A strategy that has a key to sign with imported it from a good one.
KeysGood ==
  /\ \A s \in Service : "sign" \in cached[s] => Config[s].private # Corrupt
  /\ \A i \in Issuer : signing[i].phase # "idle" =>
       /\ signing[i].service \in Service /\ signing[i].claims \in Claims
       /\ Config[signing[i].service].private # Missing
       /\ signing[i].phase = "signing" => Config[signing[i].service].private # Corrupt

Underway == {"importing", "verifying", "validating"}

\* The guards behind a request have passed it; the one it is in has not refused it so far.
Progress(q) ==
  /\ q.phase = "idle" => q = NoRequest
  /\ q.phase # "idle" => q.sent \in Requests(issued)
  /\ q.phase \in Underway =>
       /\ q.at \in 1..Len(q.sent.chain)
       /\ \A i \in 1..(q.at - 1) : Passes(issued, q.sent.chain[i], q.sent)
       /\ ~RefusedAtOnce(q)
       /\ q.phase # "validating" => q.checked = 0
  /\ q.phase = "validating" =>
       /\ Genuine(issued, Config[ServiceOf(q)], TokenIn(q))
       /\ q.checked <= Len(Checks(GuardOf(q)))
       /\ \A i \in 1..q.checked : TokenIn(q).claims \in Accepts[Checks(GuardOf(q))[i]]

IInv == TypeOK /\ WellSigned /\ KeysGood /\ \A r \in Request : Progress(request[r])

-----------------------------------------------------------------------------
(* Tokens.                                                                 *)

\* The fields of what sign returns.
LEMMA TokenFields ==
  ASSUME NEW s \in Service, NEW claims \in Claims, NEW t, t = TokenOf(Config[s], claims)
  PROVE  /\ t \in Token
         /\ t.alg = Config[s].alg /\ t.claims = claims
         /\ t.signature.alg = Config[s].alg /\ t.signature.pair = Config[s].private
         /\ t.signature.header = Config[s].alg /\ t.signature.claims = claims
<1>1. /\ Config[s].alg \in Algorithm /\ Config[s].private \in Key
  BY ConfigAssumption DEF ServiceConfig
<1>2. QED BY <1>1 DEF TokenOf, Signature, Token

\* A request carries a token or none in the header or cookie that a guard reads.
LEMMA CarriedTyped ==
  ASSUME NEW iss \in SUBSET Token, NEW sent \in Requests(iss), NEW i \in 1..Len(sent.chain)
  PROVE  /\ sent.chain \in Seq(Guard) /\ sent.chain[i] \in Guard
         /\ sent.chain[i].service \in Service
         /\ sent[sent.chain[i].carrier] \in {Absent} \cup OnTheWire(iss)
<1>1. /\ sent.chain \in Chain
      /\ sent.bearer \in {Absent} \cup OnTheWire(iss)
      /\ sent.cookie \in {Absent} \cup OnTheWire(iss)
  BY DEF Requests
<1>2. sent.chain \in Seq(Guard) /\ sent.chain[i] \in Guard
  BY <1>1, ChainAssumption
<1>3. CASE sent.chain[i].carrier = "bearer"
  BY <1>1, <1>2, <1>3 DEF Guard
<1>4. CASE sent.chain[i].carrier = "cookie"
  BY <1>1, <1>2, <1>4 DEF Guard
<1>5. QED BY <1>2, <1>3, <1>4 DEF Guard

\* What is signed is read back only under the key and header it was signed for.
LEMMA SignaturesTell ==
  ASSUME issued \subseteq Token, WellSigned, NEW s \in Service,
         NEW t \in OnTheWire(issued), t # Malformed
  PROVE  /\ t \in Token
         /\ Genuine(issued, Config[s], t) <=>
              t.alg = Config[s].alg /\ SignatureHolds(Config[s], t)
<1>1. PICK u \in issued : \/ \E claims \in Claims : t = [u EXCEPT !.claims = claims]
                          \/ \E other \in Service : t = [u EXCEPT !.alg = Config[other].alg]
  BY DEF OnTheWire
<1>2. PICK maker \in Service, claims \in Claims : u = TokenOf(Config[maker], claims)
  BY DEF WellSigned
<1>3. /\ u \in Token /\ u.alg = Config[maker].alg /\ u.claims = claims
      /\ u.signature = Signature(Config[maker].alg, Config[maker].private, u.alg, u.claims)
  BY <1>2, TokenFields DEF TokenOf, Signature
<1>4. /\ t \in Token /\ t.signature = u.signature
      /\ t.alg = u.alg /\ t.claims = u.claims => t = u
  BY <1>1, <1>3, ConfigAssumption DEF Token, ServiceConfig
<1>5. ASSUME Genuine(issued, Config[s], t)
      PROVE  t.alg = Config[s].alg /\ SignatureHolds(Config[s], t)
  <2>1. PICK m \in Service, c \in Claims : t = TokenOf(Config[m], c)
    BY <1>5 DEF Genuine, WellSigned
  <2>2. /\ t.alg = Config[m].alg /\ t.claims = c
        /\ t.signature = Signature(Config[m].alg, Config[m].private, Config[m].alg, c)
        /\ t.signature.alg = Config[m].alg /\ t.signature.pair = Config[m].private
    BY <2>1, TokenFields DEF TokenOf
  <2>3. Config[m].alg = Config[s].alg /\ Config[m].private = Config[s].public
    BY <1>5, <2>2 DEF Genuine
  <2>4. QED BY <2>2, <2>3 DEF SignatureHolds
<1>6. ASSUME t.alg = Config[s].alg, SignatureHolds(Config[s], t)
      PROVE  Genuine(issued, Config[s], t)
  <2>1. Signature(Config[maker].alg, Config[maker].private, u.alg, u.claims)
          = Signature(Config[s].alg, Config[s].public, t.alg, t.claims)
    BY <1>3, <1>4, <1>6 DEF SignatureHolds
  <2>2. /\ u.alg = t.alg /\ u.claims = t.claims
        /\ Config[maker].private = Config[s].public
        /\ Config[maker].alg = Config[s].alg
    <3>1. \A a, p, h, c, a2, p2, h2, c2 :
            Signature(a, p, h, c) = Signature(a2, p2, h2, c2)
              => a = a2 /\ p = p2 /\ h = h2 /\ c = c2
      BY DEF Signature
    <3>2. QED BY <2>1, <3>1
  <2>3. t \in issued
    BY <1>1, <1>4, <2>2
  <2>4. t.signature.alg = Config[s].alg /\ t.signature.pair = Config[s].public
    <3>1. u.signature.alg = Config[maker].alg /\ u.signature.pair = Config[maker].private
      BY <1>2, TokenFields
    <3>2. QED BY <1>4, <2>2, <3>1
  <2>5. QED BY <2>3, <2>4 DEF Genuine
<1>7. QED BY <1>4, <1>5, <1>6

\* A guard that refuses at once, or has a key that does not import, refuses rightly.
LEMMA RefusalsAreRight ==
  ASSUME issued \subseteq Token, WellSigned, NEW q, q.sent \in Requests(issued),
         q.at \in 1..Len(q.sent.chain),
         RefusedAtOnce(q) \/ Config[ServiceOf(q)].public = Corrupt
  PROVE  ~Passes(issued, q.sent.chain[q.at], q.sent)
<1> DEFINE s == ServiceOf(q)
           t == TokenIn(q)
<1>1. s \in Service /\ t \in {Absent} \cup OnTheWire(issued)
  BY CarriedTyped DEF ServiceOf, GuardOf, TokenIn
<1>2. SUFFICES ASSUME Genuine(issued, Config[s], t) PROVE FALSE
  BY DEF Passes, ServiceOf, GuardOf, TokenIn
<1>3. t \in issued /\ t \notin {Absent, Malformed}
  BY <1>2, SentinelAssumption DEF Genuine
<1>4. t.alg = Config[s].alg
  BY <1>1, <1>2, <1>3, SignaturesTell
<1>5. Config[s].public \in Pair
  <2>1. PICK m \in Service, claims \in Claims :
          t = TokenOf(Config[m], claims) /\ Config[m].private \in Pair
    BY <1>3 DEF WellSigned
  <2>2. QED BY <1>2, <2>1, TokenFields DEF Genuine
<1>6. QED BY <1>3, <1>4, <1>5, SentinelAssumption DEF RefusedAtOnce
-----------------------------------------------------------------------------
(* Tokens are only ever added.                                             *)

\* What may be sent while some tokens are issued may be sent when more are.
LEMMA MoreRequests ==
  ASSUME NEW iss, NEW more, iss \subseteq more
  PROVE  Requests(iss) \subseteq Requests(more)
<1>1. OnTheWire(iss) \subseteq OnTheWire(more)
  BY DEF OnTheWire
<1>2. QED BY <1>1 DEF Requests

\* A request that passes a guard still passes it when more tokens are issued.
LEMMA PassesStays ==
  ASSUME NEW iss, NEW more, iss \subseteq more, NEW guard, NEW sent, Passes(iss, guard, sent)
  PROVE  Passes(more, guard, sent)
BY DEF Passes, Genuine

\* What has come so far stays so when tokens are issued.
LEMMA ProgressStays ==
  ASSUME issued \subseteq issued', NEW r \in Request, request'[r] = request[r],
         Progress(request[r])
  PROVE  Progress(request[r])'
<1> DEFINE q == request[r]
<1>1. q.phase # "idle" => q.sent \in Requests(issued')
  BY MoreRequests DEF Progress
<1>2. q.phase \in Underway =>
        \A i \in 1..(q.at - 1) : Passes(issued', q.sent.chain[i], q.sent)
  BY PassesStays DEF Progress
<1>3. q.phase = "validating" => Genuine(issued', Config[ServiceOf(q)], TokenIn(q))
  BY DEF Progress, Genuine
<1>4. QED
  BY <1>1, <1>2, <1>3 DEF Progress, RefusedAtOnce, ServiceOf, GuardOf, TokenIn, NoRequest

-----------------------------------------------------------------------------
(* The way of a request.                                                   *)

\* A state between two steps, as a value: what a handler of request r writes.
Shape ==
  [phase : {"idle", "importing", "verifying", "validating", "refused", "served"},
   sent : {Absent} \cup Requests(issued), at : Nat, checked : Nat,
   claims : Claims \cup {Absent}]

\* Entering the guard in q.at, behind those that have passed.
LEMMA EnterTells ==
  ASSUME TypeOK, NEW q \in Shape, q.sent \in Requests(issued),
         q.at \in 1..(Len(q.sent.chain) + 1),
         \A i \in 1..(q.at - 1) : Passes(issued, q.sent.chain[i], q.sent)
  PROVE  /\ Enter(q) \in Shape /\ Progress(Enter(q))
         /\ Enter(q).sent = q.sent /\ Enter(q).claims = q.claims
         /\ Enter(q).phase \in Underway \cup {"refused", "served"}
         /\ Enter(q).phase = "served" <=> q.at = Len(q.sent.chain) + 1
         /\ Enter(q).phase = "refused" => q.at <= Len(q.sent.chain) /\ RefusedAtOnce(q)
<1> DEFINE n == Len(q.sent.chain)
<1>1. n \in Nat /\ q.at \in Nat
  <2>1. q.sent.chain \in Seq(Guard)
    BY ChainAssumption DEF Requests
  <2>2. QED BY <2>1
<1>2. CASE q.at > n
  <2>1. Enter(q) = [q EXCEPT !.phase = "served"] /\ q.at = n + 1
    BY <1>1, <1>2 DEF Enter
  <2>2. QED BY <1>1, <2>1 DEF Shape, Progress, Underway
<1>3. CASE ~(q.at > n) /\ RefusedAtOnce(q)
  <2>1. Enter(q) = [q EXCEPT !.phase = "refused"]
    BY <1>3 DEF Enter, Refuse
  <2>2. QED BY <1>1, <1>3, <2>1 DEF Shape, Progress, Underway
<1>4. CASE ~(q.at > n) /\ ~RefusedAtOnce(q)
  <2>1. PICK phase \in {"importing", "verifying"} :
          Enter(q) = [q EXCEPT !.checked = 0, !.phase = phase]
    <3>1. Enter(q) = [q EXCEPT !.checked = 0,
                               !.phase = IF "verify" \in cached[ServiceOf(q)] THEN "verifying"
                                         ELSE "importing"]
      BY <1>4, Zenon DEF Enter
    <3>2. CASE "verify" \in cached[ServiceOf(q)]
      BY <3>1, <3>2, Zenon
    <3>3. CASE "verify" \notin cached[ServiceOf(q)]
      BY <3>1, <3>3, Zenon
    <3>4. QED BY <3>2, <3>3
  <2>2. /\ Enter(q) \in Shape /\ Enter(q).phase = phase /\ Enter(q).sent = q.sent
        /\ Enter(q).at = q.at /\ Enter(q).claims = q.claims /\ Enter(q).checked = 0
    <3>1. \A ph \in {"importing", "verifying"} :
            LET e == [q EXCEPT !.checked = 0, !.phase = ph]
            IN  e \in Shape /\ e.phase = ph /\ e.sent = q.sent /\ e.at = q.at
                /\ e.claims = q.claims /\ e.checked = 0
      BY DEF Shape
    <3>2. QED BY <2>1, <3>1
  <2>3. ~RefusedAtOnce(Enter(q))
    BY <1>4, <2>2 DEF RefusedAtOnce, TokenIn, ServiceOf, GuardOf
  <2>4. Progress(Enter(q))
    BY <1>1, <1>4, <2>2, <2>3 DEF Progress, Underway
  <2>5. QED BY <1>1, <1>4, <2>2, <2>4 DEF Underway
<1>5. QED BY <1>2, <1>3, <1>4
(***************************************************************************)
(* A step that writes one request, and leaves the issued tokens alone.     *)
(***************************************************************************)
LEMMA OneRequest ==
  ASSUME IInv, NEW r \in Request, NEW q \in Shape, Progress(q),
         request' = [request EXCEPT ![r] = q],
         UNCHANGED <<issued, signing>>, cached' \in [Service -> SUBSET Use],
         \A s \in Service : "sign" \in cached'[s] => Config[s].private # Corrupt
  PROVE  IInv'
<1>1. TypeOK'
  BY DEF IInv, TypeOK, Shape
<1>2. WellSigned' /\ KeysGood'
  BY DEF IInv, WellSigned, KeysGood
<1>3. ASSUME NEW d \in Request PROVE Progress(request[d])'
  <2>1. request'[d] = IF d = r THEN q ELSE request[d]
    BY DEF IInv, TypeOK
  <2>2. Progress(request'[d])
    BY <2>1 DEF IInv
  <2>3. QED BY <2>2 DEF Progress, RefusedAtOnce, ServiceOf, GuardOf, TokenIn, NoRequest
<1>4. QED BY <1>1, <1>2, <1>3 DEF IInv

\* A request that reads no more of its way.
LEMMA RefuseTells ==
  ASSUME NEW q \in Shape, q.sent \in Requests(issued)
  PROVE  /\ Refuse(q) \in Shape /\ Progress(Refuse(q))
         /\ Refuse(q).sent = q.sent /\ Refuse(q).phase = "refused"
BY DEF Refuse, Shape, Progress, Underway

\* No token, no call of sign and no request: the invariant holds at the start.
LEMMA InitInv == Init => IInv
<1> SUFFICES ASSUME Init PROVE IInv
  OBVIOUS
<1>1. TypeOK
  BY DEF Init, TypeOK, NoRequest, NoSigning, Ready, Use
<1>2. WellSigned
  BY DEF Init, WellSigned
<1>3. KeysGood
  BY ConfigAssumption, SentinelAssumption
     DEF Init, KeysGood, NoSigning, Ready, Use, Creatable
<1>4. \A r \in Request : Progress(request[r])
  BY DEF Init, Progress, NoRequest, Underway
<1>5. QED BY <1>1, <1>2, <1>3, <1>4 DEF IInv
-----------------------------------------------------------------------------
(* Verdicts.                                                               *)

\* VerdictOn, by the phase of the request.
LEMMA VerdictCases ==
  ASSUME NEW q
  PROVE  /\ q.phase = "served" => VerdictOn(q) = [admitted |-> TRUE, claims |-> q.claims]
         /\ q.phase = "refused" => VerdictOn(q) = [admitted |-> FALSE, claims |-> Absent]
         /\ q.phase \notin {"served", "refused"} => VerdictOn(q) = Pending
BY DEF VerdictOn

\* A chain has a last guard.
LEMMA ChainTyped ==
  ASSUME NEW sent \in Requests(issued)
  PROVE  /\ Len(sent.chain) \in Nat \ {0} /\ DOMAIN sent.chain = 1..Len(sent.chain)
         /\ sent.chain \in Seq(Guard)
<1>1. sent.chain \in Seq(Guard) /\ sent.chain # <<>>
  BY ChainAssumption DEF Requests
<1>2. QED BY <1>1

\* Refusing is right if the guard the request is in does not pass it.
LEMMA RefuseDecides ==
  ASSUME NEW q \in Shape, q.sent \in Requests(issued), q.at \in 1..Len(q.sent.chain),
         ~Passes(issued, q.sent.chain[q.at], q.sent)
  PROVE  VerdictOn(Refuse(q)) = Verdict(issued, q.sent)
<1>1. Verdict(issued, q.sent) = [admitted |-> FALSE, claims |-> Absent]
  BY ChainTyped DEF Verdict
<1>2. QED BY <1>1, RefuseTells, VerdictCases

\* So is entering the next guard, or the handler, behind those that passed it.
LEMMA EnterDecides ==
  ASSUME IInv, NEW q \in Shape, q.sent \in Requests(issued),
         q.at \in 1..(Len(q.sent.chain) + 1),
         \A i \in 1..(q.at - 1) : Passes(issued, q.sent.chain[i], q.sent),
         q.at = Len(q.sent.chain) + 1
           => q.claims = q.sent[q.sent.chain[Len(q.sent.chain)].carrier].claims
  PROVE  VerdictOn(Enter(q)) \in {Pending, Verdict(issued, q.sent)}
<1> DEFINE n == Len(q.sent.chain)
<1>1. /\ Enter(q).sent = q.sent /\ Enter(q).claims = q.claims
      /\ Enter(q).phase = "served" <=> q.at = n + 1
      /\ Enter(q).phase = "refused" => q.at <= n /\ RefusedAtOnce(q)
  BY EnterTells DEF IInv
<1>2. n \in Nat \ {0} /\ DOMAIN q.sent.chain = 1..n
  BY ChainTyped
<1>3. CASE Enter(q).phase = "served"
  <2>1. \A i \in DOMAIN q.sent.chain : Passes(issued, q.sent.chain[i], q.sent)
    BY <1>1, <1>2, <1>3
  <2>2. Verdict(issued, q.sent) = [admitted |-> TRUE, claims |-> q.claims]
    BY <1>1, <1>3, <2>1 DEF Verdict
  <2>3. QED BY <1>1, <1>3, <2>2, VerdictCases
<1>4. CASE Enter(q).phase = "refused"
  <2>1. q.at \in 1..n
    BY <1>1, <1>2, <1>4
  <2>2. ~Passes(issued, q.sent.chain[q.at], q.sent)
    BY <1>1, <1>4, <2>1, RefusalsAreRight DEF IInv, TypeOK
  <2>3. Verdict(issued, q.sent) = [admitted |-> FALSE, claims |-> Absent]
    BY <1>2, <2>1, <2>2 DEF Verdict
  <2>4. QED BY <1>4, <2>3, VerdictCases
<1>5. CASE Enter(q).phase \notin {"served", "refused"}
  BY <1>5, VerdictCases
<1>6. QED BY <1>3, <1>4, <1>5

(***************************************************************************)
(* What every step of a request comes to: the invariant holds, and the     *)
(* verdict, if there is one now, is the right one.                         *)
(***************************************************************************)
Decides(r) ==
  /\ IInv'
  /\ request[r].phase \in Underway \cup {"idle"} /\ UNCHANGED issued
  /\ \E q \in Shape :
       /\ request' = [request EXCEPT ![r] = q]
       /\ q.sent \in Requests(issued) /\ q.phase # "idle"
       /\ request[r].phase # "idle" => q.sent = request[r].sent
       /\ VerdictOn(q) \in {Pending, Verdict(issued, q.sent)}

\* A request that arrives goes into its first guard.
LEMMA ArriveDecides ==
  ASSUME IInv, NEW r \in Request, NEW what \in Requests(issued), Arrive(r, what)
  PROVE  Decides(r)
<1> DEFINE q == [NoRequest EXCEPT !.sent = what, !.at = 1]
<1>1. q \in Shape /\ q.sent = what /\ q.at = 1
  BY DEF NoRequest, Shape
<1>2. Len(what.chain) \in Nat \ {0}
  BY ChainTyped
<1>3. q.at \in 1..(Len(q.sent.chain) + 1) /\ 1..(q.at - 1) = {}
  BY <1>1, <1>2
<1>4. request' = [request EXCEPT ![r] = Enter(q)] /\ UNCHANGED <<cached, issued, signing>>
  BY DEF Arrive
<1> HIDE DEF q
<1>5. /\ Enter(q) \in Shape /\ Progress(Enter(q)) /\ Enter(q).sent = what
      /\ Enter(q).phase # "idle"
  BY <1>1, <1>3, EnterTells DEF IInv, Underway
<1>6. VerdictOn(Enter(q)) \in {Pending, Verdict(issued, what)}
  BY <1>1, <1>2, <1>3, EnterDecides
<1>7. IInv'
  BY <1>4, <1>5, OneRequest DEF IInv, TypeOK, KeysGood
<1>8. QED BY <1>4, <1>5, <1>6, <1>7 DEF Decides, Arrive, Underway

\* What the request r is, once it has arrived.
LEMMA OnItsWay ==
  ASSUME IInv, NEW r \in Request, request[r].phase \in Underway
  PROVE  /\ request[r] \in Shape /\ Progress(request[r])
         /\ request[r].sent \in Requests(issued)
         /\ request[r].at \in 1..Len(request[r].sent.chain)
         /\ ServiceOf(request[r]) \in Service
         /\ TokenIn(request[r]) \in OnTheWire(issued) \ {Malformed}
         /\ TokenIn(request[r]).alg = Config[ServiceOf(request[r])].alg
         /\ GuardOf(request[r]) \in Guard
<1> DEFINE q == request[r]
<1>1. q \in Shape /\ Progress(q) /\ issued \subseteq Token
  BY DEF IInv, TypeOK, Shape
<1>2. q.sent \in Requests(issued) /\ q.at \in 1..Len(q.sent.chain) /\ ~RefusedAtOnce(q)
  BY <1>1 DEF Progress, Underway
<1>3. QED
  BY <1>1, <1>2, CarriedTyped DEF RefusedAtOnce, ServiceOf, GuardOf, TokenIn

\* An import that settles gives the strategy its key or ends the request.
LEMMA ImportDecides ==
  ASSUME IInv, NEW r \in Request, VerifyingKeyImported(r)
  PROVE  Decides(r)
<1> DEFINE q == request[r]
           s == ServiceOf(q)
<1>1. /\ q.phase = "importing" /\ q \in Shape /\ Progress(q)
      /\ q.sent \in Requests(issued) /\ q.at \in 1..Len(q.sent.chain) /\ s \in Service
  BY OnItsWay DEF VerifyingKeyImported, Underway
<1>2. UNCHANGED <<issued, signing>>
  BY DEF VerifyingKeyImported
<1>3. CASE Config[s].public = Corrupt
  <2>1. request' = [request EXCEPT ![r] = Refuse(q)] /\ cached' = cached
    BY <1>3 DEF VerifyingKeyImported
  <2>2. VerdictOn(Refuse(q)) = Verdict(issued, q.sent)
    <3>1. ~Passes(issued, q.sent.chain[q.at], q.sent)
      BY <1>1, <1>3, RefusalsAreRight DEF IInv, TypeOK
    <3>2. QED BY <1>1, <3>1, RefuseDecides
  <2>3. IInv'
    BY <1>1, <1>2, <2>1, RefuseTells, OneRequest DEF IInv, TypeOK, KeysGood
  <2>4. QED BY <1>1, <1>2, <2>1, <2>2, <2>3, RefuseTells DEF Decides, Underway
<1>4. CASE Config[s].public # Corrupt
  <2> DEFINE next == [q EXCEPT !.phase = "verifying"]
  <2>1. /\ request' = [request EXCEPT ![r] = next]
        /\ cached' = [cached EXCEPT ![s] = @ \cup Imported(s, "verify")]
    BY <1>4 DEF VerifyingKeyImported, IInv, TypeOK
  <2>2. /\ next \in Shape /\ next.phase = "verifying" /\ next.sent = q.sent
        /\ next.at = q.at /\ next.checked = q.checked
    BY <1>1 DEF Shape
  <2>3. Progress(next)
    BY <1>1, <2>2 DEF Progress, Underway, RefusedAtOnce, TokenIn, ServiceOf, GuardOf
  <2> HIDE DEF next
  <2>4. /\ cached' \in [Service -> SUBSET Use]
        /\ \A other \in Service : "sign" \in cached'[other] => Config[other].private # Corrupt
    BY <1>1, <2>1, ConfigAssumption, SentinelAssumption
       DEF IInv, TypeOK, KeysGood, Imported, Use, Creatable
  <2>5. VerdictOn(next) = Pending
    BY <2>2, VerdictCases
  <2>6. IInv'
    BY <1>2, <2>1, <2>2, <2>3, <2>4, OneRequest
  <2>7. QED BY <1>1, <1>2, <2>1, <2>2, <2>5, <2>6 DEF Decides, Underway
<1>5. QED BY <1>3, <1>4
\* The validators of a guard, its service's before its own.
LEMMA ChecksTyped ==
  ASSUME IInv, NEW r \in Request, request[r].phase \in Underway
  PROVE  /\ Checks(GuardOf(request[r])) \in Seq(Validator)
         /\ Len(Checks(GuardOf(request[r]))) \in Nat
         /\ DOMAIN Checks(GuardOf(request[r])) = 1..Len(Checks(GuardOf(request[r])))
<1> DEFINE guard == GuardOf(request[r])
<1>1. guard \in Guard
  BY OnItsWay
<1>2. Config[guard.service].validators \in Seq(Validator) /\ guard.extra \in Seq(Validator)
  BY <1>1, ConfigAssumption DEF Guard, ServiceConfig
<1>3. Checks(guard) \in Seq(Validator)
  BY <1>2 DEF Checks
<1>4. QED BY <1>3

\* A step to the value next of a request that has no verdict yet.
LEMMA StaysPending ==
  ASSUME IInv, NEW r \in Request, request[r].phase \in Underway,
         NEW next \in Shape, next.sent = request[r].sent, next.phase \in Underway,
         Progress(next), request' = [request EXCEPT ![r] = next],
         UNCHANGED <<cached, issued, signing>>
  PROVE  Decides(r)
<1>1. VerdictOn(next) = Pending
  BY VerdictCases DEF Underway
<1>2. IInv'
  BY OneRequest DEF IInv, TypeOK, KeysGood
<1>3. QED BY <1>1, <1>2, OnItsWay DEF Decides, Underway

\* A step that refuses a request in a guard that does not pass it.
LEMMA RefusesRightly ==
  ASSUME IInv, NEW r \in Request, request[r].phase \in Underway,
         ~Passes(issued, request[r].sent.chain[request[r].at], request[r].sent),
         request' = [request EXCEPT ![r] = Refuse(request[r])],
         UNCHANGED <<cached, issued, signing>>
  PROVE  Decides(r)
<1>1. VerdictOn(Refuse(request[r])) = Verdict(issued, request[r].sent)
  BY OnItsWay, RefuseDecides
<1>2. IInv'
  BY OnItsWay, RefuseTells, OneRequest DEF IInv, TypeOK, KeysGood
<1>3. QED BY <1>1, <1>2, OnItsWay, RefuseTells DEF Decides, Underway

\* The answer of strategy.verify is the one that issued tokens give.
LEMMA SignatureDecides ==
  ASSUME IInv, NEW r \in Request, SignatureChecked(r)
  PROVE  Decides(r)
<1> DEFINE q == request[r]
           guard == GuardOf(q)
           t == TokenIn(q)
<1>1. /\ q.phase = "verifying" /\ q \in Shape /\ Progress(q) /\ q.at \in Nat
      /\ UNCHANGED <<cached, issued, signing>>
  BY OnItsWay DEF SignatureChecked, Underway, Shape
<1>2. Genuine(issued, Config[ServiceOf(q)], t) <=> SignatureHolds(Config[ServiceOf(q)], t)
  BY <1>1, OnItsWay, SignaturesTell DEF Underway, IInv, TypeOK
<1>3. CASE SignatureHolds(Config[ServiceOf(q)], t)
  <2> DEFINE next == [q EXCEPT !.phase = "validating"]
  <2>1. request' = [request EXCEPT ![r] = next]
    BY <1>3 DEF SignatureChecked
  <2>2. /\ next \in Shape /\ next.phase = "validating" /\ next.sent = q.sent
        /\ next.at = q.at /\ next.checked = q.checked
    BY <1>1 DEF Shape
  <2>3. Genuine(issued, Config[ServiceOf(next)], TokenIn(next))
    BY <1>2, <1>3, <2>2 DEF TokenIn, ServiceOf, GuardOf
  <2>4. Len(Checks(GuardOf(next))) \in Nat
    BY <1>1, <2>2, ChecksTyped DEF GuardOf, Underway
  <2> HIDE DEF next
  <2>5. RefusedAtOnce(next) = RefusedAtOnce(q)
    BY <2>2 DEF RefusedAtOnce, TokenIn, ServiceOf, GuardOf
  <2>6. next.checked = 0 /\ 1..next.checked = {}
    BY <1>1, <2>2 DEF Progress, Underway
  <2>7. Progress(next)
    BY <1>1, <2>2, <2>3, <2>4, <2>5, <2>6 DEF Progress, Underway
  <2>8. QED BY <1>1, <2>1, <2>2, <2>7, StaysPending DEF Underway
<1>4. CASE ~SignatureHolds(Config[ServiceOf(q)], t)
  <2>1. request' = [request EXCEPT ![r] = Refuse(q)]
    BY <1>4 DEF SignatureChecked
  <2>2. ~Passes(issued, q.sent.chain[q.at], q.sent)
    BY <1>2, <1>4 DEF Passes, ServiceOf, TokenIn, GuardOf
  <2>3. QED BY <1>1, <2>1, <2>2, RefusesRightly DEF Underway
<1>5. QED BY <1>3, <1>4
\* A validator that accepts takes the request one further; one that does not refuses it.
LEMMA ValidatedDecides ==
  ASSUME IInv, NEW r \in Request, Validated(r)
  PROVE  Decides(r)
<1> DEFINE q == request[r]
           guard == GuardOf(q)
           t == TokenIn(q)
<1>1. /\ q.phase = "validating" /\ q \in Shape /\ Progress(q)
      /\ q.checked \in Nat /\ q.checked < Len(Checks(guard))
      /\ UNCHANGED <<cached, issued, signing>>
  BY OnItsWay DEF Validated, Underway, Shape
<1>2. Len(Checks(guard)) \in Nat /\ DOMAIN Checks(guard) = 1..Len(Checks(guard))
  BY <1>1, ChecksTyped DEF Underway
<1>3. CASE t.claims \in Accepts[Checks(guard)[q.checked + 1]]
  <2> DEFINE next == [q EXCEPT !.checked = q.checked + 1]
  <2>1. request' = [request EXCEPT ![r] = next]
    BY <1>3 DEF Validated
  <2>2. /\ next \in Shape /\ next.phase = "validating" /\ next.sent = q.sent
        /\ next.at = q.at /\ next.checked = q.checked + 1
    BY <1>1 DEF Shape
  <2> HIDE DEF next
  <2>3. /\ GuardOf(next) = guard /\ TokenIn(next) = t /\ ServiceOf(next) = ServiceOf(q)
        /\ RefusedAtOnce(next) = RefusedAtOnce(q)
    BY <2>2 DEF RefusedAtOnce, TokenIn, ServiceOf, GuardOf
  <2>4. \A i \in 1..next.checked : t.claims \in Accepts[Checks(guard)[i]]
    BY <1>1, <1>3, <2>2 DEF Progress
  <2>5. Progress(next)
    BY <1>1, <1>2, <2>2, <2>3, <2>4 DEF Progress, Underway
  <2>6. QED BY <1>1, <2>1, <2>2, <2>5, StaysPending DEF Underway
<1>4. CASE t.claims \notin Accepts[Checks(guard)[q.checked + 1]]
  <2>1. request' = [request EXCEPT ![r] = Refuse(q)]
    BY <1>4 DEF Validated
  <2>2. q.checked + 1 \in DOMAIN Checks(guard)
    BY <1>1, <1>2
  <2>3. ~Approves(guard, t.claims)
    BY <1>4, <2>2 DEF Approves
  <2>4. ~Passes(issued, q.sent.chain[q.at], q.sent)
    BY <2>3 DEF Passes, TokenIn, GuardOf
  <2>5. QED BY <1>1, <2>1, <2>4, RefusesRightly DEF Underway
<1>5. QED BY <1>3, <1>4

\* Past its last validator a request enters the next guard, or the handler.
LEMMA AdmitDecides ==
  ASSUME IInv, NEW r \in Request, Admit(r)
  PROVE  Decides(r)
<1> DEFINE old == request[r]
           n == Len(old.sent.chain)
           t == TokenIn(old)
           q == [old EXCEPT !.claims = t.claims, !.at = old.at + 1]
<1>1. /\ old.phase = "validating" /\ old \in Shape /\ Progress(old)
      /\ old.checked = Len(Checks(GuardOf(old)))
      /\ request' = [request EXCEPT ![r] = Enter(q)]
      /\ UNCHANGED <<cached, issued, signing>>
  BY OnItsWay DEF Admit, Underway
<1>2. /\ old.sent \in Requests(issued) /\ old.at \in 1..n /\ n \in Nat
      /\ t \in Token
  BY <1>1, OnItsWay, ChainTyped, SignaturesTell DEF Underway, IInv, TypeOK
<1>3. Passes(issued, old.sent.chain[old.at], old.sent)
  <2>1. Approves(GuardOf(old), t.claims)
    BY <1>1, ChecksTyped DEF Approves, Progress, Underway
  <2>2. QED BY <1>1, <2>1 DEF Passes, Progress, TokenIn, ServiceOf, GuardOf
<1>4. /\ q \in Shape /\ q.sent = old.sent /\ q.at = old.at + 1 /\ q.claims = t.claims
  <2>1. t.claims \in Claims /\ old.at + 1 \in Nat
    BY <1>1, <1>2 DEF Shape, Token
  <2>2. \A c \in Claims, a \in Nat :
          LET e == [old EXCEPT !.claims = c, !.at = a]
          IN  e \in Shape /\ e.sent = old.sent /\ e.at = a /\ e.claims = c
    BY <1>1 DEF Shape
  <2>3. QED BY <2>1, <2>2
<1> HIDE DEF q
<1>5. /\ q.at \in 1..(n + 1)
      /\ \A i \in 1..(q.at - 1) : Passes(issued, q.sent.chain[i], q.sent)
  <2>1. \A i \in 1..(old.at - 1) : Passes(issued, old.sent.chain[i], old.sent)
    BY <1>1 DEF Progress, Underway
  <2>2. q.at = old.at + 1 /\ q.sent = old.sent
    BY <1>4
  <2>3. q.at \in 1..(n + 1) /\ q.at - 1 = old.at
    BY <1>2, <2>2
  <2>4. ASSUME NEW i \in 1..(q.at - 1) PROVE Passes(issued, q.sent.chain[i], q.sent)
    <3>1. i \in 1..(old.at - 1) \/ i = old.at
      BY <1>2, <2>3
    <3>2. QED BY <1>3, <2>1, <2>2, <3>1, Zenon
  <2>5. QED BY <2>3, <2>4
<1>6. q.at = n + 1 => q.claims = q.sent[q.sent.chain[n].carrier].claims
  <2>1. q.at = n + 1 => old.at = n
    BY <1>2, <1>4
  <2>2. t = q.sent[q.sent.chain[old.at].carrier]
    BY <1>4 DEF TokenIn, GuardOf
  <2>3. QED BY <1>4, <2>1, <2>2
<1>7. VerdictOn(Enter(q)) \in {Pending, Verdict(issued, q.sent)}
  BY <1>2, <1>4, <1>5, <1>6, EnterDecides
<1>8. /\ Enter(q) \in Shape /\ Progress(Enter(q)) /\ Enter(q).sent = old.sent
      /\ Enter(q).phase # "idle"
  BY <1>2, <1>4, <1>5, EnterTells DEF IInv, Underway
<1>9. IInv'
  BY <1>1, <1>8, OneRequest DEF IInv, TypeOK, KeysGood
<1>10. QED BY <1>1, <1>2, <1>4, <1>7, <1>8, <1>9 DEF Decides, Underway

-----------------------------------------------------------------------------
(* The calls of sign, and the invariant.                                   *)

\* A step of sign that issues nothing.
LEMMA SigningKeeps ==
  ASSUME IInv, UNCHANGED <<issued, request>>, cached' \in [Service -> SUBSET Use],
         signing' \in [Issuer -> [phase : {"idle", "importing", "signing"},
                                  service : Service \cup {Absent},
                                  claims : Claims \cup {Absent}]],
         KeysGood'
  PROVE  IInv'
<1>1. TypeOK' /\ WellSigned'
  BY DEF IInv, TypeOK, WellSigned
<1>2. \A r \in Request : Progress(request[r])'
  BY ProgressStays DEF IInv
<1>3. QED BY <1>1, <1>2 DEF IInv

\* A call of sign begins with a key that is not missing.
LEMMA SignKeeps ==
  ASSUME IInv, NEW i \in Issuer, NEW s \in Service, NEW claims \in Claims, Sign(i, s, claims)
  PROVE  IInv'
<1>1. PICK phase \in {"importing", "signing"} :
        /\ signing' = [signing EXCEPT ![i] =
             [phase |-> phase, service |-> s, claims |-> claims]]
        /\ phase = "signing" => "sign" \in cached[s]
  <2>1. CASE "sign" \in cached[s]
    BY <2>1 DEF Sign
  <2>2. CASE "sign" \notin cached[s]
    BY <2>2 DEF Sign
  <2>3. QED BY <2>1, <2>2
<1>2. Config[s].private # Missing /\ UNCHANGED <<cached, issued, request>>
  BY DEF Sign
<1>3. KeysGood'
  BY <1>1, <1>2 DEF IInv, TypeOK, KeysGood
<1>4. QED BY <1>1, <1>2, <1>3, SigningKeeps DEF IInv, TypeOK

\* The key a call of sign has imported is not corrupt.
LEMMA SigningKeyKeeps ==
  ASSUME IInv, NEW i \in Issuer, SigningKeyImported(i)
  PROVE  IInv'
<1> DEFINE s == signing[i].service
<1>1. /\ signing[i].phase = "importing" /\ s \in Service
      /\ UNCHANGED <<issued, request>>
  BY DEF SigningKeyImported, IInv, KeysGood
<1>2. CASE Config[s].private = Corrupt
  <2>1. signing' = [signing EXCEPT ![i] = NoSigning] /\ cached' = cached
    BY <1>2 DEF SigningKeyImported
  <2>2. KeysGood'
    BY <2>1 DEF IInv, TypeOK, KeysGood, NoSigning
  <2>3. QED BY <1>1, <2>1, <2>2, SigningKeeps DEF IInv, TypeOK, NoSigning
<1>3. CASE Config[s].private # Corrupt
  <2>1. /\ signing' = [signing EXCEPT ![i].phase = "signing"]
        /\ cached' = [cached EXCEPT ![s] = @ \cup Imported(s, "sign")]
    BY <1>3 DEF SigningKeyImported
  <2>2. cached' \in [Service -> SUBSET Use]
    BY <1>1, <2>1 DEF IInv, TypeOK, Imported, Use
  <2>3. KeysGood'
    BY <1>1, <1>3, <2>1 DEF IInv, TypeOK, KeysGood
  <2>4. QED BY <1>1, <2>1, <2>2, <2>3, SigningKeeps DEF IInv, TypeOK
<1>4. QED BY <1>2, <1>3

\* A token that is issued is well signed.
LEMMA SignedKeeps ==
  ASSUME IInv, NEW i \in Issuer, Signed(i)
  PROVE  IInv' /\ issued \subseteq issued' /\ UNCHANGED request
<1> DEFINE s == signing[i].service
           claims == signing[i].claims
           t == TokenOf(Config[s], claims)
<1>1. /\ issued' = issued \cup {t} /\ signing' = [signing EXCEPT ![i] = NoSigning]
      /\ UNCHANGED <<cached, request>>
  BY DEF Signed
<1>2. /\ s \in Service /\ claims \in Claims
      /\ Config[s].private # Missing /\ Config[s].private # Corrupt
  BY DEF Signed, IInv, KeysGood
<1>3. t \in Token /\ Config[s].private \in Pair
  <2>1. Config[s].private \in Key
    BY <1>2, ConfigAssumption DEF ServiceConfig
  <2>2. QED BY <1>2, <2>1, TokenFields DEF Key
<1> HIDE DEF t
<1>4. TypeOK'
  <2>1. Requests(issued) \subseteq Requests(issued')
    BY <1>1, MoreRequests
  <2>2. /\ cached' \in [Service -> SUBSET Use] /\ issued' \subseteq Token
        /\ signing' \in [Issuer -> [phase : {"idle", "importing", "signing"},
                                    service : Service \cup {Absent},
                                    claims : Claims \cup {Absent}]]
    BY <1>1, <1>3 DEF IInv, TypeOK, NoSigning
  <2>3. request \in [Request -> Shape] /\ Shape \subseteq Shape'
    BY <2>1 DEF IInv, TypeOK, Shape
  <2>4. QED BY <1>1, <2>2, <2>3 DEF TypeOK, Shape
<1>5. WellSigned'
  BY <1>1, <1>2, <1>3 DEF IInv, WellSigned, t
<1>6. KeysGood'
  BY <1>1 DEF IInv, TypeOK, KeysGood, NoSigning
<1>7. \A r \in Request : Progress(request[r])'
  BY <1>1, ProgressStays DEF IInv
<1>8. QED BY <1>1, <1>4, <1>5, <1>6, <1>7 DEF IInv

\* The steps of a request, together.
LEMMA StepsDecide ==
  ASSUME IInv, NEW r \in Request, Steps(r)
  PROVE  Decides(r)
BY ImportDecides, SignatureDecides, ValidatedDecides, AdmitDecides DEF Steps

\* Every step keeps the invariant.
LEMMA NextInv == IInv /\ [Next]_vars => IInv'
<1> SUFFICES ASSUME IInv, [Next]_vars PROVE IInv'
  OBVIOUS
<1>1. ASSUME NEW i \in Issuer, NEW s \in Service, NEW claims \in Claims, Sign(i, s, claims)
      PROVE  IInv'
  BY <1>1, SignKeeps
<1>2. ASSUME NEW i \in Issuer, SigningKeyImported(i) \/ Signed(i) PROVE IInv'
  BY <1>2, SigningKeyKeeps, SignedKeeps
<1>3. ASSUME NEW r \in Request, NEW what \in Requests(issued), Arrive(r, what) PROVE IInv'
  BY <1>3, ArriveDecides DEF Decides
<1>4. ASSUME NEW r \in Request, Steps(r) PROVE IInv'
  BY <1>4, StepsDecide DEF Decides
<1>5. ASSUME UNCHANGED vars PROVE IInv'
  <2>1. UNCHANGED <<cached, issued, signing, request>>
    BY <1>5 DEF vars
  <2>2. KeysGood'
    BY <2>1 DEF IInv, KeysGood
  <2>3. QED BY <2>1, <2>2, SigningKeeps DEF IInv, TypeOK
<1>6. QED BY <1>1, <1>2, <1>3, <1>4, <1>5 DEF Next

(***************************************************************************)
(* In every reachable state the issued tokens were signed with keys that   *)
(* work, and a request under way is behind no guard but those that pass    *)
(* it, and in one that has not refused it so far.                          *)
(***************************************************************************)
THEOREM Invariance == Spec => []IInv
<1>1. QED BY InitInv, NextInv, PTL DEF Spec

\* Every variable keeps its type: keys, issued tokens, calls of sign and requests.
THEOREM TypeCorrect == Spec => []TypeOK
<1>1. IInv => TypeOK
  BY DEF IInv
<1>2. QED BY <1>1, Invariance, PTL

-----------------------------------------------------------------------------
(* The refinement.                                                         *)

\* What AuthGate says of tokens is what Tokens says here.
LEMMA SameVerdict ==
  /\ \A iss : Gate!Requests(iss) = Requests(iss)
  /\ \A iss, what : Gate!Verdict(iss, what) = Verdict(iss, what)
  /\ Gate!Pending = Pending
<1>1. \A iss : Gate!Requests(iss) = Requests(iss)
  BY DEF Gate!Requests, Requests, Gate!OnTheWire, OnTheWire
<1>2. \A iss, guard, what : Gate!Passes(iss, guard, what) = Passes(iss, guard, what)
  BY DEF Gate!Passes, Passes, Gate!Genuine, Genuine, Gate!Approves, Approves,
         Gate!Checks, Checks
<1>3. \A iss, what : Gate!Verdict(iss, what) = Verdict(iss, what)
  BY <1>2 DEF Gate!Verdict, Verdict
<1>4. QED BY <1>1, <1>3 DEF Gate!Pending, Pending

\* A request that carries anything is none that carries nothing.
LEMMA CarriesSomething ==
  ASSUME issued \subseteq Token, WellSigned
  PROVE  Absent \notin Requests(issued)
<1>1. ASSUME NEW t \in OnTheWire(issued), t # Malformed PROVE t \in Token
  <2>1. \E u \in issued : TRUE
    BY <1>1 DEF OnTheWire
  <2>2. PICK s \in Service : TRUE
    BY <2>1 DEF WellSigned
  <2>3. QED BY <1>1, <2>2, SignaturesTell
<1>2. Requests(issued) \subseteq [chain : Chain, bearer : {Absent, Malformed} \cup Token,
                                  cookie : {Absent, Malformed} \cup Token]
  BY <1>1 DEF Requests
<1>3. Absent \notin [chain : Chain, bearer : {Absent, Malformed} \cup Token,
                     cookie : {Absent, Malformed} \cup Token]
  BY SentinelAssumption, Zenon
<1>4. QED BY <1>2, <1>3, Zenon

SentBy == [r \in Request |-> request[r].sent]
VerdictFor == [r \in Request |-> VerdictOn(request[r])]

\* A step of one request is its arrival or its verdict, or changes neither.
LEMMA DecidesImplements ==
  ASSUME IInv, NEW r \in Request, Decides(r),
         request[r].phase = "idle" \/ request[r].phase \in Underway
  PROVE  Gate!Arrive(r) \/ Gate!Decide(r) \/ UNCHANGED <<issued, SentBy, VerdictFor>>
<1>1. PICK q \in Shape :
        /\ request' = [request EXCEPT ![r] = q]
        /\ q.sent \in Requests(issued) /\ q.phase # "idle"
        /\ request[r].phase # "idle" => q.sent = request[r].sent
        /\ VerdictOn(q) \in {Pending, Verdict(issued, q.sent)}
  BY DEF Decides
<1>2. /\ issued' = issued
      /\ SentBy' = [SentBy EXCEPT ![r] = q.sent]
      /\ VerdictFor' = [VerdictFor EXCEPT ![r] = VerdictOn(q)]
  BY <1>1 DEF Decides, IInv, TypeOK, SentBy, VerdictFor
<1>3. /\ SentBy[r] = request[r].sent /\ VerdictFor[r] = Pending
      /\ SentBy = [d \in Request |-> SentBy[d]]
      /\ VerdictFor = [d \in Request |-> VerdictFor[d]]
  BY VerdictCases DEF SentBy, VerdictFor, Underway
<1>4. CASE request[r].phase = "idle"
  <2>1. SentBy[r] = Absent
    BY <1>3, <1>4 DEF IInv, Progress, NoRequest
  <2>2. VerdictFor' = VerdictFor
          \/ VerdictFor' = [VerdictFor EXCEPT ![r] = Verdict(issued, q.sent)]
    BY <1>1, <1>2, <1>3
  <2>3. Gate!Arrive(r)
    BY <1>1, <1>2, <2>1, <2>2, SameVerdict DEF Gate!Arrive, SentBy, VerdictFor
  <2>4. QED BY <2>3
<1>5. CASE request[r].phase # "idle"
  <2>1. q.sent = request[r].sent /\ SentBy' = SentBy /\ SentBy[r] # Absent
    BY <1>1, <1>2, <1>3, <1>5, CarriesSomething DEF IInv, TypeOK
  <2>2. CASE VerdictOn(q) = Pending
    <3>1. VerdictFor' = VerdictFor
      BY <1>2, <1>3, <2>2
    <3>2. QED BY <1>2, <2>1, <3>1
  <2>3. CASE VerdictOn(q) = Verdict(issued, q.sent)
    <3>1. VerdictFor' = [VerdictFor EXCEPT ![r] = Verdict(issued, SentBy[r])]
      BY <1>2, <1>3, <2>1, <2>3
    <3>2. Gate!Decide(r)
      BY <1>2, <1>3, <2>1, <3>1, SameVerdict DEF Gate!Decide, SentBy, VerdictFor
    <3>3. QED BY <3>2
  <2>4. QED BY <1>1, <2>2, <2>3
<1>6. QED BY <1>4, <1>5

\* The first state of the services is the first of the gate.
LEMMA InitImplements == Init => Gate!Init
<1> SUFFICES ASSUME Init PROVE Gate!Init
  OBVIOUS
<1>1. \A r \in Request : request[r].sent = Absent /\ VerdictOn(request[r]) = Pending
  BY VerdictCases DEF Init, NoRequest
<1>2. QED BY <1>1, SameVerdict DEF Init, Gate!Init

\* Each step is a step of the gate or does not touch what the gate sees.
LEMMA StepImplements == IInv /\ [Next]_vars => [Gate!Next]_(Gate!vars)
<1> SUFFICES ASSUME IInv, [Next]_vars
             PROVE  Gate!Next \/ UNCHANGED <<issued, SentBy, VerdictFor>>
  BY DEF Gate!vars, SentBy, VerdictFor
<1>1. ASSUME UNCHANGED <<issued, request>>
      PROVE  UNCHANGED <<issued, SentBy, VerdictFor>>
  BY <1>1 DEF SentBy, VerdictFor
<1>2. ASSUME NEW i \in Issuer, NEW s \in Service, NEW claims \in Claims, Sign(i, s, claims)
      PROVE  UNCHANGED <<issued, SentBy, VerdictFor>>
  BY <1>1, <1>2 DEF Sign
<1>3. ASSUME NEW i \in Issuer, SigningKeyImported(i)
      PROVE  UNCHANGED <<issued, SentBy, VerdictFor>>
  BY <1>1, <1>3 DEF SigningKeyImported
<1>4. ASSUME NEW i \in Issuer, Signed(i) PROVE Gate!Next
  <2>1. issued \subseteq issued' /\ UNCHANGED <<SentBy, VerdictFor>>
    BY <1>4, SignedKeeps DEF SentBy, VerdictFor
  <2>2. QED BY <2>1 DEF Gate!Next, Gate!Issue, SentBy, VerdictFor
<1>5. ASSUME NEW r \in Request, Decides(r)
      PROVE  Gate!Next \/ UNCHANGED <<issued, SentBy, VerdictFor>>
  BY <1>5, DecidesImplements DEF Decides, Gate!Next
<1>6. ASSUME NEW r \in Request, NEW what \in Requests(issued), Arrive(r, what)
      PROVE  Decides(r)
  BY <1>6, ArriveDecides
<1>7. ASSUME NEW r \in Request, Steps(r) PROVE Decides(r)
  BY <1>7, StepsDecide
<1>8. CASE UNCHANGED vars
  BY <1>1, <1>8 DEF vars
<1>9. QED BY <1>2, <1>3, <1>4, <1>5, <1>6, <1>7, <1>8 DEF Next

(***************************************************************************)
(* The services and guards implement the gate: a request is admitted only  *)
(* if every guard's token was issued with that guard's algorithm and key   *)
(* and all validators accept its claims, and refused only if not.          *)
(***************************************************************************)
THEOREM Refinement == Spec => ImplementsGate
<1>1. QED BY InitImplements, StepImplements, Invariance, PTL
          DEF Spec, ImplementsGate, Gate!Spec
=============================================================================
